---- MODULE Spec2Model ----
(***************************************************************************)
(* Aurix trading bot: the controller (bot/trading_bot.py), the position    *)
(* sizer (bot/risk_manager.py) and the order execution port               *)
(* (bot/trade_executor.py), as driven by the API handlers (bot/bot_api.py).*)
(*                                                                         *)
(* One asyncio event loop runs everything: a coroutine runs without        *)
(* interruption from one await that really suspends to the next, so an     *)
(* action of this model is the code between two such awaits.  The head of  *)
(* start()'s while loop is kept as a step of its own.                      *)
(*                                                                         *)
(* Prices are whole numbers.  Amounts that the code computes by division   *)
(* (lot size, margin, risk amount) are exact fractions <<n, d>>, d > 0, in *)
(* lowest terms.                                                           *)
(***************************************************************************)
EXTENDS Integers, Sequences, FiniteSets, TLC

VARIABLES
    bot,      \* the TradingBot object: its fields, its components, its executor
    env,      \* what the bot has done to the outside: calls of the execution
              \* port, orders sent to the venue, trade events sent to on_trade
    pc,       \* pc[t]: where the start() coroutine t is suspended
    frame,    \* frame[t]: the locals of t while it is suspended in the live port
    stop_pc   \* where the caller of stop() is

vars == <<bot, env, pc, frame, stop_pc>>

\* None, for a component, a signal, an order and a coroutine's locals
NULL == "null"
NoComponent == [kind |-> "none"]
NoSignal == [action |-> "NONE"]
NoOrder == [status |-> "none"]
NoFrame == [signal |-> NoSignal]
\* an order id that is the empty string
NoId == <<>>

(***************************************************************************)
(* Bounds of the model.                                                    *)
(***************************************************************************)
\* start() coroutines that may exist for the one bot instance
MaxTasks == 2
\* signals the data source delivers in a run (stats['total_signals'] is unbounded)
MaxSignals == 2
\* times start() gets as far as RUNNING (stats['started_at'] is a timestamp)
MaxStarts == 2
\* entries the rolling log keeps; the code keeps 1000 (trading_bot.py:285-286)
LOG_KEEP == 2

\* orders a simulated ledger is asked to execute (order_counter is unbounded)
MaxOrders == 3

Tasks == 1..MaxTasks

(***************************************************************************)
(* Exact fractions.                                                        *)
(***************************************************************************)
Abs(x) == IF x < 0 THEN -x ELSE x

RECURSIVE GCD(_, _)
GCD(a, b) == IF b = 0 THEN a ELSE GCD(b, a % b)

Rat(n, d) ==
    LET g == GCD(Abs(n), Abs(d))
        s == IF d < 0 THEN -1 ELSE 1
    IN  IF n = 0 THEN <<0, 1>> ELSE <<s * (n \div g), s * (d \div g)>>

RatInt(i) == <<i, 1>>
RatLT(a, b) == a[1] * b[2] < b[1] * a[2]
RatGT(a, b) == RatLT(b, a)
RatLE(a, b) == ~RatLT(b, a)
RatAdd(a, b) == Rat(a[1] * b[2] + b[1] * a[2], a[2] * b[2])
RatSub(a, b) == Rat(a[1] * b[2] - b[1] * a[2], a[2] * b[2])
RatMul(a, b) == Rat(a[1] * b[1], a[2] * b[2])
\* int(x) of Python: truncation toward zero
RatTrunc(a) == IF a[1] >= 0 THEN a[1] \div a[2] ELSE -((-a[1]) \div a[2])

RECURSIVE RatSum(_)
RatSum(s) == IF s = <<>> THEN <<0, 1>> ELSE RatAdd(Head(s), RatSum(Tail(s)))

(***************************************************************************)
(* RiskManager (bot/risk_manager.py).                                      *)
(***************************************************************************)
\* LOT_SIZES['standard']: TradingBot.initialize passes no account_type
LOT_MULTIPLIER == 100000

JPY_SYMBOLS == {"USDJPY", "EURJPY", "GBPJPY"}
CRYPTO_SYMBOLS == {"BTCUSD", "BTCUSDT", "ETHUSD", "ETHUSDT"}
GOLD_SYMBOLS == {"XAUUSD"}

\* 1 / pip_size of calculate_pips: 0.01, 1.0, 0.1, else 0.0001
PipsPerUnit(symbol) ==
    IF symbol \in JPY_SYMBOLS THEN 100
    ELSE IF symbol \in CRYPTO_SYMBOLS THEN 1
    ELSE IF symbol \in GOLD_SYMBOLS THEN 10
    ELSE 10000

calculate_pips(symbol, entry_price, stop_loss) ==
    Abs(entry_price - stop_loss) * PipsPerUnit(symbol)

\* PIP_VALUES.get(symbol, 10.0) for one standard lot, as a fraction
get_pip_value(symbol) ==
    IF symbol \in JPY_SYMBOLS THEN Rat(91, 10)
    ELSE IF symbol \in CRYPTO_SYMBOLS THEN RatInt(1)
    ELSE RatInt(10)

\* is_valid left True whatever the margin
MarginUnchecked(margin_required, equity) == TRUE

\* the margin check of calculate_position_size: is_valid stays True
MarginOk(margin_required, equity) == ~RatGT(margin_required, RatInt(equity))

\* `if sl_pips <= 0`, with the zero distance let through
NegativeStop(sl_pips) == sl_pips < 0

\* `if sl_pips <= 0`: the early return of calculate_position_size
InvalidStop(sl_pips) == sl_pips <= 0

\* lot_size with the pip value left out of the divisor
LotPerPip(risk_amount, sl_pips, pip_value_per_lot) ==
    Rat(risk_amount[1], risk_amount[2] * sl_pips)

\* lot_size = risk_amount / (sl_pips * pip_value_per_lot)
LotSize(risk_amount, sl_pips, pip_value_per_lot) ==
    Rat(risk_amount[1] * pip_value_per_lot[2],
        risk_amount[2] * sl_pips * pip_value_per_lot[1])

\* a division by zero leaves calculate_position_size as an exception
ZeroDivisionError == [raised |-> "ZeroDivisionError"]

\* rm: the RiskManager's fields; risk_percent: <<x>> for the number x, or <<>> for
\* None (the default risk percent is used)
calculate_position_size(rm, symbol, entry_price, stop_loss, take_profit, risk_percent) ==
    LET rp0      == IF risk_percent = <<>> THEN rm.default_risk_percent ELSE risk_percent[1]
        clamped  == rp0 > rm.max_risk_percent
        rp       == IF clamped THEN rm.max_risk_percent ELSE rp0
        warning0 == IF clamped THEN <<"risk_clamped">> ELSE <<>>
        risk_amount == Rat(rm.equity * rp, 100)
        sl_pips  == calculate_pips(symbol, entry_price, stop_loss)
        pv       == get_pip_value(symbol)
        denom    == RatMul(RatInt(sl_pips), pv)
        lot_size == LotSize(risk_amount, sl_pips, pv)
        units    == RatTrunc(RatMul(lot_size, RatInt(LOT_MULTIPLIER)))
        margin_required == Rat(units * entry_price, rm.leverage)
        potential_loss  == RatMul(denom, lot_size)
        tp_pips  == calculate_pips(symbol, entry_price, take_profit)
        potential_profit == RatMul(RatMul(RatInt(tp_pips), pv), lot_size)
        is_valid == MarginOk(margin_required, rm.equity)
        warning1 == IF is_valid THEN warning0 ELSE <<"margin">>
        warning2 == IF RatLT(lot_size, Rat(1, 100))
                    THEN Append(warning1, "small_lot") ELSE warning1
    IN  IF InvalidStop(sl_pips)
        THEN [lot_size |-> RatInt(0), units |-> 0, risk_amount |-> risk_amount,
              risk_percent |-> rp, stop_loss_pips |-> 0,
              potential_loss |-> RatInt(0), potential_profit |-> RatInt(0),
              margin_required |-> RatInt(0), is_valid |-> FALSE,
              warning |-> <<"invalid_stop">>]
        ELSE IF denom[1] = 0 THEN ZeroDivisionError
        ELSE [lot_size |-> lot_size, units |-> units, risk_amount |-> risk_amount,
              risk_percent |-> rp, stop_loss_pips |-> sl_pips,
              potential_loss |-> potential_loss, potential_profit |-> potential_profit,
              margin_required |-> margin_required, is_valid |-> is_valid,
              warning |-> warning2]

\* `if not ohlcv or len(ohlcv) < 250` and max(ema_slow + 10, 250) with ema_slow = 200
MIN_CANDLES == 250

(***************************************************************************)
(* StrategyEngine (bot/strategy_engine.py).  A candle is a record of whole *)
(* prices and a whole volume; every value the engine derives from candles  *)
(* is an exact fraction (the code computes them in floating point).        *)
(***************************************************************************)
RatDiv(a, b) == Rat(a[1] * b[2], a[2] * b[1])
RatEQ(a, b) == a[1] * b[2] = b[1] * a[2]
RatAbs(a) == <<Abs(a[1]), a[2]>>

\* StrategyEngine.__init__: min_rrr is a fraction, the other parameters are whole
Engine(ema_fast, ema_medium, ema_slow, swing_lookback, min_rrr, min_confidence) ==
    [ema_fast |-> ema_fast, ema_medium |-> ema_medium, ema_slow |-> ema_slow,
     swing_lookback |-> swing_lookback, min_rrr |-> min_rrr,
     min_confidence |-> min_confidence,
     _prev_ema_fast |-> NULL, _prev_ema_medium |-> NULL]

\* one entry of ohlcv_data
Candle(open, high, low, close, volume) ==
    [open |-> open, high |-> high, low |-> low, close |-> close, volume |-> volume]

\* np.mean of the whole numbers data[a..b]; the sum is taken by halves
RECURSIVE SumOf(_, _, _)
SumOf(data, a, b) ==
    IF a > b THEN 0
    ELSE IF a = b THEN data[a]
    ELSE LET mid == (a + b) \div 2
         IN  SumOf(data, a, mid) + SumOf(data, mid + 1, b)
Mean(data, a, b) == Rat(SumOf(data, a, b), b - a + 1)

\* one pass of the loop of calculate_ema: ema holds the values of the first
\* Len(ema) places and gets the value of the next place, if there is one
EmaStep(data, period, ema) ==
    IF Len(ema) >= Len(data)
    THEN ema
    ELSE LET i == Len(ema) + 1
             multiplier == Rat(2, period + 1)
         IN  Append(ema, RatAdd(RatMul(RatInt(data[i]), multiplier),
                                RatMul(ema[i - 1], RatSub(RatInt(1), multiplier))))

\* four and sixteen passes
EmaStep4(data, period, ema) ==
    EmaStep(data, period, EmaStep(data, period, EmaStep(data, period,
        EmaStep(data, period, ema))))
EmaStep16(data, period, ema) ==
    EmaStep4(data, period, EmaStep4(data, period, EmaStep4(data, period,
        EmaStep4(data, period, ema))))

\* the loop of calculate_ema, sixteen passes at a time
RECURSIVE EmaLoop(_, _, _)
EmaLoop(data, period, ema) ==
    IF Len(ema) >= Len(data) THEN ema
    ELSE EmaLoop(data, period, EmaStep16(data, period, ema))

\* StrategyEngine.calculate_ema: zeros before place `period`, the mean of the first
\* `period` values at it, the recurrence after it; the empty array for short data
calculate_ema(data, period) ==
    IF Len(data) < period
    THEN <<>>
    ELSE EmaLoop(data, period,
                 [i \in 1..period |-> IF i < period THEN RatInt(0)
                                      ELSE Mean(data, 1, period)])

\* min and max of the whole numbers data[a..b], a <= b
MinOf(data, a, b) == CHOOSE m \in {data[i] : i \in a..b} : \A i \in a..b : m <= data[i]
MaxOf(data, a, b) == CHOOSE m \in {data[i] : i \in a..b} : \A i \in a..b : m >= data[i]
Last(set) == CHOOSE i \in set : \A j \in set : j <= i

\* StrategyEngine.find_swing_low
find_swing_low(lows, lookback) ==
    LET n == Len(lows)
        swing_lows == {i \in lookback + 1 .. n - lookback :
                          lows[i] = MinOf(lows, i - lookback, i + lookback)}
    IN  IF n < lookback * 2 + 1
        THEN IF n >= lookback THEN MinOf(lows, n - lookback + 1, n) ELSE MinOf(lows, 1, n)
        ELSE IF swing_lows # {} THEN lows[Last(swing_lows)]
        ELSE MinOf(lows, n - lookback + 1, n)

\* StrategyEngine.find_swing_high
find_swing_high(highs, lookback) ==
    LET n == Len(highs)
        swing_highs == {i \in lookback + 1 .. n - lookback :
                           highs[i] = MaxOf(highs, i - lookback, i + lookback)}
    IN  IF n < lookback * 2 + 1
        THEN IF n >= lookback THEN MaxOf(highs, n - lookback + 1, n) ELSE MaxOf(highs, 1, n)
        ELSE IF swing_highs # {} THEN highs[Last(swing_highs)]
        ELSE MaxOf(highs, n - lookback + 1, n)

\* a cross is reported whenever the fast average is not equal to the medium one
CrossoverWithoutPrev(ema_fast_current, ema_medium_current, ema_fast_prev, ema_medium_prev) ==
    IF RatGT(ema_fast_current, ema_medium_current) THEN "BULLISH"
    ELSE IF RatLT(ema_fast_current, ema_medium_current) THEN "BEARISH"
    ELSE NULL

\* StrategyEngine.detect_crossover
detect_crossover(ema_fast_current, ema_medium_current, ema_fast_prev, ema_medium_prev) ==
    IF RatLE(ema_fast_prev, ema_medium_prev) /\ RatGT(ema_fast_current, ema_medium_current)
    THEN "BULLISH"
    ELSE IF RatLE(ema_medium_prev, ema_fast_prev) /\ RatLT(ema_fast_current, ema_medium_current)
    THEN "BEARISH"
    ELSE NULL

\* the score as it is, not clamped
Unclamped(confidence) == confidence

\* `max(0, min(100, confidence))`
Clamp(confidence) ==
    IF confidence > 100 THEN 100 ELSE IF confidence < 0 THEN 0 ELSE confidence

\* calculate_confidence: the points for the distance of the close from the fast
\* average, in percent of the close (extension > 0 on the side of the trade)
PositionPoints(extension) ==
    IF RatGT(extension, RatInt(0)) /\ RatLT(extension, RatInt(1)) THEN 15
    ELSE IF RatGT(extension, RatInt(2)) THEN -10
    ELSE 0

\* calculate_confidence: `if volume_ratio > 1.2 ... elif volume_ratio > 1.5`
VolumePoints(volume_ratio) ==
    IF RatGT(volume_ratio, Rat(12, 10)) THEN 15
    ELSE IF RatGT(volume_ratio, Rat(15, 10)) THEN 25
    ELSE 0

\* StrategyEngine.calculate_confidence; close is a fraction that is not zero
calculate_confidence(action, close, ema_9, ema_21, ema_200, volume_ratio) ==
    LET hundred == RatInt(100)
        buy  == (IF RatGT(close, ema_200) THEN 25 ELSE 0)
                + (IF RatGT(ema_9, ema_21) THEN 20 ELSE 0)
                + (IF RatGT(ema_21, ema_200) THEN 15 ELSE 0)
                + PositionPoints(RatMul(RatDiv(RatSub(close, ema_9), close), hundred))
        sell == (IF RatLT(close, ema_200) THEN 25 ELSE 0)
                + (IF RatLT(ema_9, ema_21) THEN 20 ELSE 0)
                + (IF RatLT(ema_21, ema_200) THEN 15 ELSE 0)
                + PositionPoints(RatMul(RatDiv(RatSub(ema_9, close), close), hundred))
    IN  Clamp((IF action = "BUY" THEN buy ELSE IF action = "SELL" THEN sell ELSE 0)
              + VolumePoints(volume_ratio))

\* get_signal from `closes = ...` to `volume_ratio = ...`: the values it reads off
\* the candles; ohlcv_data has at least ema_slow + 10 candles here
Readings(engine, ohlcv_data) ==
    LET n       == Len(ohlcv_data)
        closes  == [i \in 1..n |-> ohlcv_data[i].close]
        volumes == [i \in 1..n |-> ohlcv_data[i].volume]
        ema_9   == calculate_ema(closes, engine.ema_fast)
        ema_21  == calculate_ema(closes, engine.ema_medium)
        ema_200 == calculate_ema(closes, engine.ema_slow)
        avg_volume == IF n >= 20 THEN Mean(volumes, n - 19, n) ELSE Mean(volumes, 1, n)
    IN  [current_close   |-> RatInt(closes[n]),
         current_ema_9   |-> ema_9[Len(ema_9)],
         current_ema_21  |-> ema_21[Len(ema_21)],
         current_ema_200 |-> ema_200[Len(ema_200)],
         prev_ema_9      |-> IF Len(ema_9) > 1 THEN ema_9[Len(ema_9) - 1]
                             ELSE ema_9[Len(ema_9)],
         prev_ema_21     |-> IF Len(ema_21) > 1 THEN ema_21[Len(ema_21) - 1]
                             ELSE ema_21[Len(ema_21)],
         volume_ratio    |-> IF RatGT(avg_volume, RatInt(0))
                             THEN RatDiv(RatInt(volumes[n]), avg_volume)
                             ELSE RatInt(1)]

\* a signal whose swing point is the time of the call
SignalWithClock(action, entry_price, stop_loss, take_profit, swing_point, ema_9, ema_21, ema_200, risk_reward_ratio, confidence, timestamp, reason) ==
    [action |-> action, entry_price |-> entry_price, stop_loss |-> stop_loss,
     take_profit |-> take_profit, swing_point |-> RatInt(timestamp),
     ema_9 |-> ema_9, ema_21 |-> ema_21, ema_200 |-> ema_200,
     risk_reward_ratio |-> risk_reward_ratio, confidence |-> confidence,
     timestamp |-> timestamp, reason |-> reason]

\* TradeSignal; reason is the tuple of the parts that name what was decided
TradeSignal(action, entry_price, stop_loss, take_profit, swing_point, ema_9, ema_21, ema_200, risk_reward_ratio, confidence, timestamp, reason) ==
    [action |-> action, entry_price |-> entry_price, stop_loss |-> stop_loss,
     take_profit |-> take_profit, swing_point |-> swing_point,
     ema_9 |-> ema_9, ema_21 |-> ema_21, ema_200 |-> ema_200,
     risk_reward_ratio |-> risk_reward_ratio, confidence |-> confidence,
     timestamp |-> timestamp, reason |-> reason]

\* the floor alone, whatever the slow period
FloorOnly(engine) == MIN_CANDLES

\* `min_candles = max(self.ema_slow + 10, 250)`
MinCandles(engine) ==
    IF engine.ema_slow + 10 > MIN_CANDLES THEN engine.ema_slow + 10 ELSE MIN_CANDLES

\* no stop distance counts as zero
NeverZero(sl_distance) == FALSE

\* get_signal, `if sl_distance == 0`
ZeroDistance(sl_distance) == RatEQ(sl_distance, RatInt(0))

\* the direction of the crossover, whatever the trend
DirectionOfCross(crossover, is_uptrend, is_downtrend) ==
    IF crossover = "BULLISH" THEN "BUY"
    ELSE IF crossover = "BEARISH" THEN "SELL"
    ELSE NULL

\* get_signal, `if crossover == 'BULLISH' and is_uptrend ... elif ... else`
Direction(crossover, is_uptrend, is_downtrend) ==
    IF crossover = "BULLISH" /\ is_uptrend THEN "BUY"
    ELSE IF crossover = "BEARISH" /\ is_downtrend THEN "SELL"
    ELSE NULL

\* get_signal from STEP 1 on, for the values r it read off the candles
Decide(engine, ohlcv_data, r, now) ==
    LET n == Len(ohlcv_data)
        is_uptrend   == RatGT(r.current_close, r.current_ema_200)
        is_downtrend == RatLT(r.current_close, r.current_ema_200)
        crossover    == detect_crossover(r.current_ema_9, r.current_ema_21,
                                         r.prev_ema_9, r.prev_ema_21)
        action       == Direction(crossover, is_uptrend, is_downtrend)
        entry_price  == r.current_close
        swing_point  == IF action = "BUY"
                        THEN find_swing_low([i \in 1..n |-> ohlcv_data[i].low],
                                            engine.swing_lookback)
                        ELSE find_swing_high([i \in 1..n |-> ohlcv_data[i].high],
                                             engine.swing_lookback)
        stop_loss    == IF action = "BUY"
                        THEN RatSub(RatInt(swing_point), Rat(swing_point, 1000))
                        ELSE RatAdd(RatInt(swing_point), Rat(swing_point, 1000))
        sl_distance  == RatAbs(RatSub(entry_price, stop_loss))
        tp_distance  == RatMul(sl_distance, engine.min_rrr)
        take_profit  == IF action = "BUY" THEN RatAdd(entry_price, tp_distance)
                        ELSE RatSub(entry_price, tp_distance)
        confidence   == calculate_confidence(action, r.current_close, r.current_ema_9,
                                             r.current_ema_21, r.current_ema_200,
                                             r.volume_ratio)
    IN  IF ~is_uptrend /\ ~is_downtrend THEN NoSignal
        ELSE IF crossover = NULL THEN NoSignal
        ELSE IF action = NULL THEN NoSignal
        ELSE IF ZeroDistance(sl_distance) THEN NoSignal
        ELSE IF confidence < engine.min_confidence THEN NoSignal
        ELSE TradeSignal(action, entry_price, stop_loss, take_profit,
                         RatInt(swing_point), r.current_ema_9, r.current_ema_21,
                         r.current_ema_200, RatDiv(tp_distance, sl_distance),
                         confidence, now,
                         <<crossover, action, swing_point, confidence>>)

\* what a caller of get_signal gets when the call raises
IndexError == [action |-> "RAISE"]

\* StrategyEngine.get_signal(ohlcv_data) called at time now; `closes[-1]` and
\* `ema_9[-1]`, `ema_21[-1]`, `ema_200[-1]` raise on an empty array
StrategyEngine_get_signal(engine, ohlcv_data, now) ==
    IF Len(ohlcv_data) < MinCandles(engine)
    THEN NoSignal
    ELSE IF \/ Len(ohlcv_data) = 0
            \/ Len(ohlcv_data) < engine.ema_fast
            \/ Len(ohlcv_data) < engine.ema_medium
            \/ Len(ohlcv_data) < engine.ema_slow
    THEN IndexError
    ELSE Decide(engine, ohlcv_data, Readings(engine, ohlcv_data), now)

(***************************************************************************)
(* Data of the controller (bot/trading_bot.py).                            *)
(***************************************************************************)
BotStates == {"STOPPED", "STARTING", "RUNNING", "ANALYZING", "TRADING", "STOPPING", "ERROR"}

\* BotConfig: the fields the modelled code reads
Config(dry_run, max_open_positions, risk_percent) ==
    [dry_run |-> dry_run, symbol |-> "XAUUSD", equity |-> 100, leverage |-> 100,
     risk_percent |-> risk_percent, max_risk_percent |-> 2,
     max_open_positions |-> max_open_positions]

\* risk_percent values an update carries (3 is above the maximum of 2)
RiskUpdates == {3}
\* max_open_positions of the configurations (the default is 1)
MaxOpenPositions == {1}

\* TradeSignal: the fields the controller and the port read
Signal(action, entry_price, stop_loss, take_profit) ==
    [action |-> action, entry_price |-> entry_price, stop_loss |-> stop_loss,
     take_profit |-> take_profit]

\* one signal that is sized validly at 1% risk, one that never is (margin above equity)
Signals == {Signal("BUY", 50, 44, 59), Signal("SELL", 50, 52, 47)}

\* What fetch_ohlcv returns: a window of candles, here its length and the decision
\* that StrategyEngine.get_signal derives from its candles.
Windows ==
    {[len |-> n, signal |-> NoSignal] : n \in {0, MIN_CANDLES - 1, MIN_CANDLES}}
        \cup {[len |-> 300, signal |-> s] : s \in Signals}

get_signal(ohlcv) == IF ohlcv.len < MIN_CANDLES THEN NoSignal ELSE ohlcv.signal

\* TradeSignal.to_dict: prices are rounded to 5 decimals, which whole numbers keep
to_dict(signal) ==
    [action |-> signal.action, entry_price |-> signal.entry_price,
     sl |-> signal.stop_loss, tp |-> signal.take_profit]

\* BotLog; data is a tuple of strings
LogEntry(level, message, data) == [level |-> level, message |-> message, data |-> data]

\* the callbacks a TradingBot is constructed with
Subscribers == {"on_log", "on_state_change", "on_trade"}

\* TradingBot.__init__; failing: the callbacks that raise when they are called;
\* raised: an exception is propagating through the controller's code
InitBot(config) ==
    [state |-> "STOPPED", running |-> FALSE, config |-> config,
     failing |-> {}, raised |-> FALSE,
     strategy |-> NULL, risk_manager |-> NoComponent, executor |-> NoComponent,
     data_fetcher |-> NULL,
     logs |-> <<LogEntry("INFO", "bot_initialized", <<>>)>>,
     open_positions |-> <<>>, current_signal |-> NoSignal,
     stats |-> [total_signals |-> 0, total_trades |-> 0, started_at |-> 0]]

\* What the instance has done to its surroundings: the calls that the cycle in
\* progress (or the last one) made to the signal engine, the sizer and the port, the
\* status of the result the port returned to it, the number of execute_trade calls,
\* the orders sent to the venue, the on_trade events, the free balance the venue
\* reported to the cycle in progress, the message of the exception a venue call
\* raised in it and the error_message of the result the port returned
\* no balance has been reported to the cycle in progress
NoFree == -1

InitEnv ==
    [calls |-> {}, result |-> "none", execute_trade_calls |-> 0, orders |-> <<>>,
     trade_events |-> <<>>, free |-> NoFree, failed |-> NULL, error |-> NULL]

\* a venue call of the cycle in progress raises an exception with this message
VenueRaises(e, message) == [e EXCEPT !.failed = message]

Call(e, name) == [e EXCEPT !.calls = @ \cup {name}]

\* the slice taken from the wrong end: the oldest entries stay
KeepFirst(logs) ==
    IF Len(logs) > LOG_KEEP THEN SubSeq(logs, 1, LOG_KEEP) ELSE logs

\* `self.logs = self.logs[-1000:]`
KeepLast(logs) ==
    IF Len(logs) > LOG_KEEP THEN SubSeq(logs, Len(logs) - LOG_KEEP + 1, Len(logs)) ELSE logs

\* a statement raises
Raise(b) == [b EXCEPT !.raised = TRUE]

\* an `except` clause catches what propagates, or the coroutine ends with it
Caught(b) == [b EXCEPT !.raised = FALSE]

\* the statements after b run only if nothing propagates: next is b after them
Unless(b, next) == IF b.raised THEN b ELSE next

\* a callback is called
Notify(b, subscriber) == IF subscriber \in b.failing THEN Raise(b) ELSE b

_log(b, level, message, data) ==
    Unless(b, Notify([b EXCEPT !.logs = KeepLast(Append(@, LogEntry(level, message, data)))],
                     "on_log"))

_set_state(b, new_state) ==
    LET b1 == _log([b EXCEPT !.state = new_state], "INFO", "state_changed",
                   <<b.state, new_state>>)
    IN  Unless(b, Unless(b1, Notify(b1, "on_state_change")))

(***************************************************************************)
(* Order execution port (bot/trade_executor.py).                           *)
(***************************************************************************)
\* filled_price 0 stands for None
OrderResult(order_id, side, status, entry_price, filled_price, quantity, filled_quantity, error_message) ==
    [order_id |-> order_id, side |-> side, status |-> status,
     entry_price |-> entry_price, filled_price |-> filled_price,
     quantity |-> quantity, filled_quantity |-> filled_quantity,
     error_message |-> error_message]

\* TradeExecutor.__init__: the simulated ledger, or the venue client
NewExecutor(config) ==
    IF config.dry_run
    THEN [kind |-> "dry", is_connected |-> FALSE, balance |-> RatInt(config.equity),
          positions |-> <<>>, order_history |-> <<>>, order_counter |-> 0]
    ELSE [kind |-> "ccxt", is_connected |-> FALSE]

\* the balance with the margins of the open positions not taken off
DryTotal(ex) == ex.balance

\* DryRunExecutor.get_balance()['free']
DryFree(ex) ==
    RatSub(ex.balance, RatSum([i \in 1..Len(ex.positions) |-> ex.positions[i].margin]))

\* DryRunExecutor.execute_trade: the ledger after the call and the result
DryExecuteTrade(ex, side, quantity, entry_price, stop_loss, take_profit) ==
    LET counter  == ex.order_counter + 1
        order_id == <<"DRY", counter>>
        margin_required == RatMul(quantity, Rat(entry_price, 100))
        counted  == [ex EXCEPT !.order_counter = counter]
        position == [id |-> order_id, side |-> side, quantity |-> quantity,
                     entry_price |-> entry_price, stop_loss |-> stop_loss,
                     take_profit |-> take_profit, margin |-> margin_required]
    IN  IF RatGT(margin_required, DryFree(ex))
        THEN [executor |-> counted,
              result |-> OrderResult(order_id, side, "REJECTED", entry_price, 0,
                                     quantity, RatInt(0), "insufficient_balance")]
        ELSE [executor |-> [counted EXCEPT !.positions = Append(@, position),
                                           !.order_history = Append(@, order_id)],
              result |-> OrderResult(order_id, side, "FILLED", entry_price, entry_price,
                                     quantity, quantity, NULL)]

\* `'SELL' if position['side'] == 'BUY' else 'BUY'`
LegSideUpper(side) == IF side = "BUY" THEN "SELL" ELSE "BUY"

\* the first open position, whatever its id (0: there is none)
FindFirst(ex, position_id) == IF ex.positions = <<>> THEN 0 ELSE 1

\* `next((p for p in self.positions if p['id'] == position_id), None)`: the index of
\* the first position with the id, 0 for None
FindPosition(ex, position_id) ==
    LET found == {i \in 1..Len(ex.positions) : ex.positions[i].id = position_id}
    IN  IF found = {} THEN 0 ELSE CHOOSE i \in found : \A j \in found : i <= j

\* the PnL of a BUY position, for either side
PnlAsBuy(position, exit_price) ==
    RatMul(RatInt(exit_price - position.entry_price), position.quantity)

\* DryRunExecutor.close_position: `pnl`
RealizedPnl(position, exit_price) ==
    IF position.side = "BUY"
    THEN RatMul(RatInt(exit_price - position.entry_price), position.quantity)
    ELSE RatMul(RatInt(position.entry_price - exit_price), position.quantity)

\* `self.positions.remove(position)` for the position at index i
RemoveAt(positions, i) ==
    SubSeq(positions, 1, i - 1) \o SubSeq(positions, i + 1, Len(positions))

\* DryRunExecutor.close_position: the ledger after the call and the result
DryClosePosition(ex, position_id, exit_price) ==
    LET i == FindPosition(ex, position_id)
        position == ex.positions[i]
    IN  IF i = 0
        THEN [executor |-> ex,
              result |-> OrderResult(<<"CLOSE">> \o position_id, "", "ERROR", 0, 0,
                                     RatInt(0), RatInt(0), "not_found")]
        ELSE [executor |-> [ex EXCEPT !.balance = RatAdd(@, RealizedPnl(position, exit_price)),
                                      !.positions = RemoveAt(@, i)],
              result |-> OrderResult(<<"CLOSE">> \o position_id, LegSideUpper(position.side),
                                     "FILLED", exit_price, exit_price, position.quantity,
                                     position.quantity, NULL)]

\* the result of a failure without the failure's message
ErrorWithoutMessage(fr, message) ==
    OrderResult(NoId, fr.signal.action, "ERROR", fr.signal.entry_price, 0,
                fr.quantity, RatInt(0), NULL)

\* CCXTExecutor.execute_trade, `except Exception as e`
LiveError(fr, message) ==
    OrderResult(NoId, fr.signal.action, "ERROR", fr.signal.entry_price, 0,
                fr.quantity, RatInt(0), message)

\* CCXTExecutor.execute_trade, `if required > balance['free']`
LiveRejected(fr) ==
    OrderResult(NoId, fr.signal.action, "REJECTED", fr.signal.entry_price, 0,
                fr.quantity, RatInt(0), "insufficient_balance")

\* CCXTExecutor.execute_trade, the result after the primary order and both legs
LiveResult(fr) ==
    OrderResult(fr.order.id, fr.signal.action,
                IF fr.order.status = "closed" THEN "FILLED" ELSE "PENDING",
                fr.signal.entry_price, fr.order.average, fr.quantity,
                fr.order.filled, NULL)

\* the side of a protective leg
LegSide(side) == IF side = "BUY" THEN "sell" ELSE "buy"

VenueOrder(type, side, amount, stopPrice, reduceOnly) ==
    [type |-> type, side |-> side, amount |-> amount, stopPrice |-> stopPrice,
     reduceOnly |-> reduceOnly]

(***************************************************************************)
(* The controller's cycle (bot/trading_bot.py).  These operators work on  *)
(* s = [bot, env] and return it with ctl, how the code leaves: "return",   *)
(* "raise" (an exception reaches the loop) or "await" (suspended in the    *)
(* live port, with the coroutine's locals in fr).                          *)
(***************************************************************************)
Out(b, e, ctl, fr) ==
    [bot |-> b, env |-> e, ctl |-> IF b.raised THEN "raise" ELSE ctl,
     fr |-> IF b.raised THEN NoFrame ELSE fr]

\* the cap test with > for >=
MaxPositionsExceeded(b) == Len(b.open_positions) > b.config.max_open_positions

\* `if len(self.open_positions) >= self.config.max_open_positions`
MaxPositionsReached(b) == Len(b.open_positions) >= b.config.max_open_positions

\* the sizing result is taken as it is
AlwaysValid(position) == TRUE

\* `if not position.is_valid` of _execute_signal
PositionValid(position) == position.is_valid

\* `if not position_size.is_valid` of TradeExecutor.execute_signal
PositionSizeValid(position_size) == position_size.is_valid

\* `if result.status == OrderStatus.FILLED`
IsFilled(result) == result.status = "FILLED"

TradeRecord(result, signal) ==
    [id |-> result.order_id, side |-> signal.action,
     entry_price |-> IF result.filled_price = 0
                     THEN signal.entry_price ELSE result.filled_price,
     quantity |-> result.filled_quantity, stop_loss |-> signal.stop_loss,
     take_profit |-> signal.take_profit, status |-> "open"]

\* _execute_signal after `result = await self.executor.execute_signal(...)`
HandleResult(b, e, signal, result) ==
    LET e1 == [e EXCEPT !.result = result.status, !.error = result.error_message]
    IN  IF IsFilled(result)
        THEN LET trade == TradeRecord(result, signal)
                 b1 == _log(b, "INFO", "order_filled", <<>>)
                 b2 == [b1 EXCEPT !.open_positions = Append(@, trade),
                                  !.stats.total_trades = @ + 1]
             IN  IF b1.raised
                 THEN Out(b1, e1, "raise", NoFrame)
                 ELSE Out(Notify(b2, "on_trade"),
                          [e1 EXCEPT !.trade_events = Append(@, trade.id)],
                          "return", NoFrame)
        ELSE Out(_log(b, "ERROR", "order_failed", <<>>), e1, "return", NoFrame)

\* TradeExecutor.execute_signal(signal_dict, risk_manager)
execute_signal(b, e, signal) ==
    LET d  == to_dict(signal)
        position_size == calculate_position_size(b.risk_manager, b.config.symbol,
                             d.entry_price, d.sl, d.tp, <<>>)
        quantity == position_size.lot_size
        e1 == Call(e, "execute_signal")
        called == [Call(e1, "execute_trade") EXCEPT !.execute_trade_calls = @ + 1]
    IN  IF ~PositionSizeValid(position_size)
        THEN HandleResult(b, e1, signal,
                 OrderResult(NoId, d.action, "REJECTED", d.entry_price, 0,
                             RatInt(0), RatInt(0), "size_validation_failed"))
        ELSE IF b.executor.kind = "dry"
        THEN LET r == DryExecuteTrade(b.executor, d.action, quantity, d.entry_price,
                                      d.sl, d.tp)
             IN  HandleResult([b EXCEPT !.executor = r.executor], called, signal, r.result)
        ELSE IF ~b.executor.is_connected
        THEN Out(b, called, "raise", NoFrame)
        ELSE Out(b, called, "await",
                 [signal |-> signal, quantity |-> quantity, order |-> NoOrder])

_execute_signal(b, e, signal) ==
    IF MaxPositionsReached(b)
    THEN Out(_log(b, "WARNING", "max_positions", <<>>), e, "return", NoFrame)
    ELSE LET b1 == _set_state(b, "TRADING")
             position == calculate_position_size(b1.risk_manager, b1.config.symbol,
                             signal.entry_price, signal.stop_loss, signal.take_profit,
                             <<b1.config.risk_percent>>)
             e1 == Call(e, "calculate_position_size")
             b2 == _log(b1, "INFO", "position", <<>>)
         IN  IF b1.raised
             THEN Out(b1, e, "raise", NoFrame)
             ELSE IF ~PositionValid(position)
             THEN Out(_log(b1, "WARNING", "size_invalid", position.warning),
                      e1, "return", NoFrame)
             ELSE IF b2.raised
             THEN Out(b2, e1, "raise", NoFrame)
             ELSE execute_signal(b2, e1, signal)

\* _analysis_cycle after `ohlcv = await self.data_fetcher.fetch_ohlcv(...)`
AfterFetch(b, e, ohlcv) ==
    IF ohlcv.len = 0 \/ ohlcv.len < MIN_CANDLES
    THEN Out(_log(b, "WARNING", "insufficient_data", <<>>), e, "return", NoFrame)
    ELSE LET b1 == _log(b, "INFO", "market", <<>>)
             signal == get_signal(ohlcv)
             e1 == Call(e, "get_signal")
         IN  IF b1.raised
             THEN Out(b1, e, "raise", NoFrame)
             ELSE IF signal # NoSignal
             THEN LET b2 == _log([b1 EXCEPT !.stats.total_signals = @ + 1,
                                            !.current_signal = signal],
                                 "INFO", "signal_detected", <<signal.action>>)
                  IN  IF b2.raised
                      THEN Out(b2, e1, "raise", NoFrame)
                      ELSE _execute_signal(b2, Call(e1, "_execute_signal"), signal)
             ELSE Out(_log(b1, "INFO", "no_signal", <<>>), e1, "return", NoFrame)

(***************************************************************************)
(* TradingBot.initialize, start and stop.                                  *)
(***************************************************************************)
NewRiskManager(config) ==
    [equity |-> config.equity, leverage |-> config.leverage,
     max_risk_percent |-> config.max_risk_percent,
     default_risk_percent |-> config.risk_percent]

\* a part of initialize, start or stop ends: ctl says how ("ok": it goes on, "false":
\* initialize returns False, "raise": an exception leaves the coroutine)
Ret(b, ctl) == [bot |-> Caught(b), ctl |-> IF b.raised THEN "raise" ELSE ctl]

\* `except Exception as e` of initialize
InitFailed(b) ==
    Ret(_set_state(_log(Caught(b), "ERROR", "init_failed", <<>>), "ERROR"), "false")

\* initialize up to `await self.executor.initialize()`; the constructor numbered
\* fail raises (1 StrategyEngine, 2 RiskManager, 3 TradeExecutor; 0: none does)
InitComponents(b, fail) ==
    LET b0 == _set_state(b, "STARTING")
        b1 == IF fail = 1 THEN Raise(b0)
              ELSE _log([b0 EXCEPT !.strategy = "StrategyEngine"], "INFO",
                        "strategy_initialized", <<>>)
        b2 == IF fail = 2 THEN Raise(b1)
              ELSE _log([b1 EXCEPT !.risk_manager = NewRiskManager(b.config)], "INFO",
                        "risk_manager_initialized", <<>>)
        b3 == IF fail = 3 THEN Raise(b2)
              ELSE [b2 EXCEPT !.executor = NewExecutor(b.config)]
        try == Unless(b1, Unless(b2, b3))
    IN  IF b0.raised THEN Ret(b0, "raise")
        ELSE IF try.raised THEN InitFailed(try)
        ELSE Ret(try, "ok")

\* initialize after executor.initialize() returned connected (its value is not
\* read); fail = 4: the DataFetcher constructor raises
InitConnected(b, connected, fail) ==
    LET b1 == _log([b EXCEPT !.executor.is_connected = connected], "INFO",
                   "executor_initialized", <<>>)
        b2 == IF fail = 4 THEN Raise(b1)
              ELSE _log([b1 EXCEPT !.data_fetcher = "DataFetcher"], "INFO",
                        "data_fetcher_initialized", <<>>)
        try == Unless(b1, b2)
    IN  IF try.raised THEN InitFailed(try) ELSE Ret(try, "ok")

\* start() after initialize() returned True, up to the loop
StartRunning(b) ==
    LET b1 == _set_state([b EXCEPT !.running = TRUE], "RUNNING")
    IN  Ret(Unless(b1, _log([b1 EXCEPT !.stats.started_at = @ + 1], "INFO",
                            "bot_started", <<>>)), "ok")

\* initialize from the call of the executor's initialize on, and start() after it
InitAndRun(b, connected, fail) ==
    LET r == InitConnected(b, connected, fail)
    IN  IF r.ctl = "ok" THEN StartRunning(r.bot) ELSE r

\* never true, for `if self.state == BotState.RUNNING`
NotRunning(b) == FALSE

\* `if self.state == BotState.RUNNING` of start
AlreadyRunning(b) == b.state = "RUNNING"

InFlight(t) == pc[t] # "idle"

\* where start() is after a part of it ended with ctl
PcAfter(ctl, next) == IF ctl = "ok" THEN next ELSE "idle"

Start(t) ==
    /\ pc[t] = "idle"
    /\ UNCHANGED <<env, frame, stop_pc>>
    /\ IF AlreadyRunning(bot)
       THEN /\ bot' = Caught(_log(bot, "WARNING", "already_running", <<>>))
            /\ UNCHANGED pc
       ELSE /\ bot.stats.started_at < MaxStarts
            /\ \E fail \in 0..4 :
                 LET r1 == InitComponents(bot, IF fail = 4 THEN 0 ELSE fail)
                     r2 == InitAndRun(r1.bot, TRUE, fail)
                 IN  IF r1.ctl # "ok"
                     THEN fail # 4 /\ bot' = r1.bot /\ UNCHANGED pc
                     ELSE IF fail \in 1..3
                     THEN FALSE
                     ELSE IF ~bot.config.dry_run
                     THEN fail = 0 /\ bot' = r1.bot /\ pc' = [pc EXCEPT ![t] = "init"]
                     ELSE bot' = r2.bot /\ pc' = [pc EXCEPT ![t] = PcAfter(r2.ctl, "loop")]

\* CCXTExecutor.connect returns: True, or False after a failure it caught
ConnectReturn(t) ==
    /\ pc[t] = "init"
    /\ UNCHANGED <<env, frame, stop_pc>>
    /\ \E connected \in BOOLEAN, fail \in {0, 4} :
         LET r == InitAndRun(bot, connected, fail)
         IN  bot' = r.bot /\ pc' = [pc EXCEPT ![t] = PcAfter(r.ctl, "loop")]

\* the loop's `except Exception as e`: the bot after it and where start() goes on
OnCycleRaise(b) ==
    LET r == Ret(_log(Caught(b), "ERROR", "main_loop_error", <<>>), "ok")
    IN  [bot |-> r.bot, pc |-> PcAfter(r.ctl, "backoff")]

\* after the loop: `self._log('INFO', 'Bot stopped')`, `self._set_state(STOPPED)`
LoopExit(b) == Caught(_set_state(_log(b, "INFO", "bot_stopped", <<>>), "STOPPED"))

\* _analysis_cycle up to `await self.data_fetcher.fetch_ohlcv(...)`
BeginCycle(b) == _log(_set_state(b, "ANALYZING"), "INFO", "fetching", <<>>)

\* `while self._running`
LoopHead(t) ==
    /\ pc[t] = "loop"
    /\ UNCHANGED <<frame, stop_pc>>
    /\ IF bot.running
       THEN LET b1 == BeginCycle(bot)
                h  == OnCycleRaise(b1)
            IN  /\ env' = [env EXCEPT !.calls = {}, !.result = "none", !.free = NoFree,
                                         !.failed = NULL, !.error = NULL]
                /\ IF b1.raised
                   THEN bot' = h.bot /\ pc' = [pc EXCEPT ![t] = h.pc]
                   ELSE bot' = b1 /\ pc' = [pc EXCEPT ![t] = "fetch"]
       ELSE /\ bot' = LoopExit(bot)
            /\ pc' = [pc EXCEPT ![t] = "idle"]
            /\ UNCHANGED env

\* start() goes on after a part of the cycle left with r.ctl
Resume(t, r) ==
    /\ env' = r.env
    /\ UNCHANGED stop_pc
    /\ IF r.ctl = "raise"
       THEN LET h == OnCycleRaise(r.bot)
            IN  /\ bot' = h.bot
                /\ pc' = [pc EXCEPT ![t] = h.pc]
                /\ frame' = [frame EXCEPT ![t] = NoFrame]
       ELSE /\ bot' = r.bot
            /\ pc' = [pc EXCEPT ![t] = IF r.ctl = "await" THEN "balance" ELSE "sleep"]
            /\ frame' = [frame EXCEPT ![t] = r.fr]

\* fetch_ohlcv returns the window ohlcv and the cycle goes on with it
FetchWindow(t, ohlcv) ==
    /\ pc[t] = "fetch"
    /\ ohlcv.signal # NoSignal => bot.stats.total_signals < MaxSignals
    /\ Resume(t, AfterFetch(bot, env, ohlcv))

\* fetch_ohlcv returns a window; or it raises (a failure that is not transient), or
\* analyze_market_state raises on what it returned
FetchReturn(t) ==
    \/ pc[t] = "fetch" /\ Resume(t, Out(bot, env, "raise", NoFrame))
    \/ \E ohlcv \in Windows : FetchWindow(t, ohlcv)

\* free balances the venue may report
VenueFree == {0, 1000}

\* every balance is enough
AlwaysSufficient(required, free) == FALSE

\* CCXTExecutor.execute_trade, `required > balance['free']`
Insufficient(required, free) == RatGT(required, RatInt(free))

\* exchange.fetch_balance returns or raises; then create_market_order is sent
BalanceReturn(t) ==
    /\ pc[t] = "balance"
    /\ LET fr == frame[t]
           required == RatMul(fr.quantity, RatInt(fr.signal.entry_price))
       IN  \/ Resume(t, HandleResult(bot, VenueRaises(env, "fetch_balance"), fr.signal,
                                    LiveError(fr, "fetch_balance")))
           \/ \E free \in VenueFree :
                LET e1 == [env EXCEPT !.free = free]
                IN  IF Insufficient(required, free)
                    THEN Resume(t, HandleResult(bot, e1, fr.signal, LiveRejected(fr)))
                    ELSE /\ env' = [e1 EXCEPT !.orders = Append(@,
                                       VenueOrder("market", fr.signal.action, fr.quantity,
                                                  0, FALSE))]
                         /\ pc' = [pc EXCEPT ![t] = "market"]
                         /\ UNCHANGED <<bot, frame, stop_pc>>

\* the venue's answer to the primary order: `closed`, or not yet filled (average 0
\* stands for None); stopPrice 0 in VenueOrder stands for no trigger price
VenueAnswer(fr, n, status) ==
    [id |-> <<"EX", n>>, status |-> status,
     filled |-> IF status = "closed" THEN fr.quantity ELSE RatInt(0),
     average |-> IF status = "closed" THEN fr.signal.entry_price ELSE 0]

MarketOrders(e) == {i \in 1..Len(e.orders) : e.orders[i].type = "market"}

\* the stop leg and the target leg of CCXTExecutor.execute_trade
StopLeg(fr) ==
    VenueOrder("stop_market", LegSide(fr.signal.action), fr.quantity,
               fr.signal.stop_loss, TRUE)
TargetLeg(fr) ==
    VenueOrder("take_profit_market", LegSide(fr.signal.action), fr.quantity,
               fr.signal.take_profit, TRUE)

\* create_market_order returns or raises; then the stop leg is sent
MarketReturn(t) ==
    /\ pc[t] = "market"
    /\ LET fr == frame[t]
       IN  \/ Resume(t, HandleResult(bot, VenueRaises(env, "market_order"), fr.signal,
                                    LiveError(fr, "market_order")))
           \/ \E status \in {"closed", "open"} :
                LET fr1 == [fr EXCEPT !.order =
                               VenueAnswer(fr, Cardinality(MarketOrders(env)), status)]
                IN  IF fr.signal.stop_loss # 0
                    THEN /\ env' = [env EXCEPT !.orders = Append(@, StopLeg(fr1))]
                         /\ pc' = [pc EXCEPT ![t] = "sl_leg"]
                         /\ frame' = [frame EXCEPT ![t] = fr1]
                         /\ UNCHANGED <<bot, stop_pc>>
                    ELSE IF fr.signal.take_profit # 0
                    THEN /\ env' = [env EXCEPT !.orders = Append(@, TargetLeg(fr1))]
                         /\ pc' = [pc EXCEPT ![t] = "tp_leg"]
                         /\ frame' = [frame EXCEPT ![t] = fr1]
                         /\ UNCHANGED <<bot, stop_pc>>
                    ELSE Resume(t, HandleResult(bot, env, fr.signal, LiveResult(fr1)))

\* the stop leg returns or raises; then the target leg is sent
StopLegReturn(t) ==
    /\ pc[t] = "sl_leg"
    /\ LET fr == frame[t]
       IN  \/ Resume(t, HandleResult(bot, VenueRaises(env, "stop_leg"), fr.signal,
                                    LiveError(fr, "stop_leg")))
           \/ IF fr.signal.take_profit # 0
              THEN /\ env' = [env EXCEPT !.orders = Append(@, TargetLeg(fr))]
                   /\ pc' = [pc EXCEPT ![t] = "tp_leg"]
                   /\ UNCHANGED <<bot, frame, stop_pc>>
              ELSE Resume(t, HandleResult(bot, env, fr.signal, LiveResult(fr)))

\* the target leg returns or raises
TargetLegReturn(t) ==
    /\ pc[t] = "tp_leg"
    /\ LET fr == frame[t]
       IN  \/ Resume(t, HandleResult(bot, VenueRaises(env, "target_leg"), fr.signal,
                                    LiveError(fr, "target_leg")))
           \/ Resume(t, HandleResult(bot, env, fr.signal, LiveResult(fr)))

\* `await asyncio.sleep(self.config.analysis_interval)` ends
SleepDone(t) ==
    /\ pc[t] = "sleep"
    /\ pc' = [pc EXCEPT ![t] = "loop"]
    /\ UNCHANGED <<bot, env, frame, stop_pc>>

\* `await asyncio.sleep(5)` of the exception handler ends
BackoffDone(t) ==
    /\ pc[t] = "backoff"
    /\ pc' = [pc EXCEPT ![t] = "loop"]
    /\ UNCHANGED <<bot, env, frame, stop_pc>>

\* stop() up to `await self.executor.shutdown()`
StopRequested(b) ==
    LET b1 == _set_state(_log(b, "INFO", "stopping", <<>>), "STOPPING")
    IN  Ret(Unless(b1, [b1 EXCEPT !.running = FALSE]), "ok")

\* stop(): the simulated port disconnects at once, the live one awaits the venue
Stop ==
    /\ stop_pc = "idle"
    /\ UNCHANGED <<env, pc, frame>>
    /\ LET r  == StopRequested(bot)
           b1 == r.bot
       IN  IF r.ctl = "raise"
           THEN bot' = b1 /\ UNCHANGED stop_pc
           ELSE IF b1.executor = NoComponent
           THEN bot' = b1 /\ stop_pc' = "stopped"
           ELSE IF b1.executor.kind = "dry"
           THEN bot' = [b1 EXCEPT !.executor.is_connected = FALSE] /\ stop_pc' = "stopped"
           ELSE bot' = b1 /\ stop_pc' = "shutdown"

\* CCXTExecutor.disconnect after `await self.exchange.close()`
ShutdownReturn ==
    /\ stop_pc = "shutdown"
    /\ bot' = [bot EXCEPT !.executor.is_connected = FALSE]
    /\ stop_pc' = "stopped"
    /\ UNCHANGED <<env, pc, frame>>

\* places where CancelledError is caught by the loop's `except asyncio.CancelledError`
InTry == {"fetch", "balance", "market", "sl_leg", "tp_leg", "sleep"}

\* stop_bot and lifespan: `bot_task.cancel()` after `await bot.stop()`
CancelTask(t) ==
    /\ stop_pc = "stopped"
    /\ pc[t] \in InTry \cup {"init", "backoff"}
    /\ stop_pc' = "idle"
    /\ pc' = [pc EXCEPT ![t] = "idle"]
    /\ frame' = [frame EXCEPT ![t] = NoFrame]
    /\ bot' = IF pc[t] \in InTry THEN LoopExit(bot) ELSE bot
    /\ UNCHANGED env

\* the caller of stop() leaves the task alone (main), or the task has ended
NoCancel ==
    /\ stop_pc = "stopped"
    /\ stop_pc' = "idle"
    /\ UNCHANGED <<bot, env, pc, frame>>

\* update_config({'risk_percent': value})
update_config(b, key, value) ==
    IF key \in DOMAIN b.config
    THEN Caught(_log([b EXCEPT !.config[key] = value], "INFO", "config_updated", <<key>>))
    ELSE b

UpdateConfig ==
    /\ \E value \in RiskUpdates :
         /\ value # bot.config.risk_percent
         /\ bot' = update_config(bot, "risk_percent", value)
    /\ UNCHANGED <<env, pc, frame, stop_pc>>

\* a callback starts to fail (a closed connection, a full queue): from now on it
\* raises whenever it is called
SubscriberFails ==
    /\ bot.failing = {}
    /\ \E subscriber \in Subscribers : bot' = [bot EXCEPT !.failing = {subscriber}]
    /\ UNCHANGED <<env, pc, frame, stop_pc>>

(***************************************************************************)
(* Specifications.                                                         *)
(***************************************************************************)
Init ==
    /\ \E dry_run \in BOOLEAN, max_open_positions \in MaxOpenPositions :
         bot = InitBot(Config(dry_run, max_open_positions, 1))
    /\ env = InitEnv
    /\ pc = [t \in Tasks |-> "idle"]
    /\ frame = [t \in Tasks |-> NoFrame]
    /\ stop_pc = "idle"

\* what a start() coroutine does once it exists, and the callers of stop()
Run(t) ==
    \/ ConnectReturn(t)
    \/ LoopHead(t)
    \/ FetchReturn(t)
    \/ BalanceReturn(t)
    \/ MarketReturn(t)
    \/ StopLegReturn(t)
    \/ TargetLegReturn(t)
    \/ SleepDone(t)
    \/ BackoffDone(t)
    \/ CancelTask(t)

\* the coroutine object the next call of start() creates
NextTask == CHOOSE t \in Tasks : ~InFlight(t)

\* no start() of this instance is in flight
NoneInFlight == \A t \in Tasks : ~InFlight(t)

\* start() is called when no earlier start() of the instance is still in flight, as
\* start_bot and main do (one start() per TradingBot)
StartSerial == NoneInFlight /\ stop_pc = "idle" /\ Start(NextTask)

Next ==
    \/ StartSerial
    \/ \E t \in Tasks : Run(t)
    \/ Stop
    \/ ShutdownReturn
    \/ NoCancel
    \/ SubscriberFails

Spec == Init /\ [][Next]_vars

\* What the event loop and the callers guarantee: a suspended start() is resumed
\* (what it awaits returns, raises or is cancelled), the port's shutdown returns,
\* and the caller of stop() goes on after it.  Calls of start() and stop() and the
\* failure of a subscriber are not forced to happen.
Fairness ==
    /\ \A t \in Tasks : WF_vars(Run(t))
    /\ WF_vars(ShutdownReturn)
    /\ WF_vars(NoCancel)

SpecFair == Spec /\ Fairness

\* an instance whose configuration is updated while it runs
InitConfig ==
    /\ \E dry_run \in BOOLEAN : bot = InitBot(Config(dry_run, 1, 1))
    /\ env = InitEnv
    /\ pc = [t \in Tasks |-> "idle"]
    /\ frame = [t \in Tasks |-> NoFrame]
    /\ stop_pc = "idle"

NextConfig ==
    \/ Next
    \/ UpdateConfig

SpecConfig == InitConfig /\ [][NextConfig]_vars

\* a dry-run instance on which start() and stop() are called at any time
InitDry ==
    /\ bot = InitBot(Config(TRUE, 1, 1))
    /\ env = InitEnv
    /\ pc = [t \in Tasks |-> "idle"]
    /\ frame = [t \in Tasks |-> NoFrame]
    /\ stop_pc = "idle"

StartAnyTime == (\E t \in Tasks : ~InFlight(t)) /\ Start(NextTask)

RunDry(t) ==
    \/ LoopHead(t)
    \/ FetchReturn(t)
    \/ SleepDone(t)
    \/ BackoffDone(t)
    \/ CancelTask(t)

NextReentrant ==
    \/ StartAnyTime
    \/ \E t \in Tasks : RunDry(t)
    \/ Stop
    \/ NoCancel
    \/ SubscriberFails

SpecReentrant == InitDry /\ [][NextReentrant]_vars

\* levels and messages of entries that callers of _log append
LogLevels == {"INFO", "WARNING", "ERROR"}
LogMessages == {"fetching", "market", "no_signal", "insufficient_data"}

\* one call of _log, by a caller that lets its exception pass
LogOne ==
    /\ \E level \in LogLevels, message \in LogMessages :
         bot' = _log(Caught(bot), level, message, <<>>)
    /\ UNCHANGED <<env, pc, frame, stop_pc>>

NextLog ==
    \/ LogOne
    \/ SubscriberFails

\* the rolling log by itself: any sequence of _log calls on an instance
SpecLog == InitDry /\ [][NextLog]_vars

\* no result yet
NoResult == OrderResult(NoId, "", "NONE", 0, 0, RatInt(0), RatInt(0), NULL)

\* What a caller of the simulated port keeps: its last call (op, arguments, the
\* result it got) and, for every close that was FILLED, the position it closed and
\* the exit price
LedgerCall(op, side, quantity, price, position_id, result, closed) ==
    [signal |-> NoSignal, op |-> op, side |-> side, quantity |-> quantity,
     price |-> price, position_id |-> position_id, result |-> result, closed |-> closed]

\* arguments of the calls: lots, entry prices, exit prices, ids
LedgerQuantities == {RatInt(100), RatInt(300)}
EntryPrices == {50}
ExitPrices == {40, 60}
PositionIds == {<<"DRY", n>> : n \in 1..MaxOrders}

\* a DryRunExecutor with the default equity, connected, and a caller without calls
InitLedger ==
    /\ bot = [InitBot(Config(TRUE, 1, 1)) EXCEPT
                 !.executor = [NewExecutor(Config(TRUE, 1, 1)) EXCEPT !.is_connected = TRUE]]
    /\ env = InitEnv
    /\ pc = [t \in Tasks |-> "idle"]
    /\ frame = [t \in Tasks |-> LedgerCall("none", "", RatInt(0), 0, NoId, NoResult, <<>>)]
    /\ stop_pc = "idle"

\* await executor.execute_trade(symbol, side, quantity, entry_price)
LedgerTrade ==
    /\ bot.executor.order_counter < MaxOrders
    /\ \E side \in {"BUY", "SELL"}, quantity \in LedgerQuantities, entry_price \in EntryPrices :
         LET r == DryExecuteTrade(bot.executor, side, quantity, entry_price, 0, 0)
         IN  /\ bot' = [bot EXCEPT !.executor = r.executor]
             /\ frame' = [frame EXCEPT ![1] =
                    LedgerCall("execute_trade", side, quantity, entry_price, NoId,
                               r.result, frame[1].closed)]
    /\ UNCHANGED <<env, pc, stop_pc>>

\* await executor.close_position(position_id, exit_price)
LedgerClose ==
    /\ \E position_id \in PositionIds, exit_price \in ExitPrices :
         LET r == DryClosePosition(bot.executor, position_id, exit_price)
             i == FindPosition(bot.executor, position_id)
             closed == IF r.result.status = "FILLED" /\ i # 0
                       THEN Append(frame[1].closed,
                                   [position |-> bot.executor.positions[i],
                                    exit_price |-> exit_price])
                       ELSE frame[1].closed
         IN  /\ bot' = [bot EXCEPT !.executor = r.executor]
             /\ frame' = [frame EXCEPT ![1] =
                    LedgerCall("close_position", "", RatInt(0), exit_price, position_id,
                               r.result, closed)]
    /\ UNCHANGED <<env, pc, stop_pc>>

NextLedger ==
    \/ LedgerTrade
    \/ LedgerClose

\* the simulated port by itself: any sequence of fills and closes
SpecLedger == InitLedger /\ [][NextLedger]_vars

(***************************************************************************)
(* The signal engine by itself: a caller hands one candle window to        *)
(* get_signal, or one set of values to calculate_confidence.               *)
(***************************************************************************)
\* the engine with the defaults of BotConfig, one with short periods, one whose
\* slow period asks for more than MIN_CANDLES candles, one with short periods that
\* is content with a confidence of 30
DefaultEngine == Engine(9, 21, 200, 10, Rat(3, 2), 60)
ShortEngine == Engine(1, 2, 3, 3, RatInt(2), 60)
SlowEngine == Engine(9, 21, 245, 10, Rat(3, 2), 50)
LenientEngine == Engine(1, 2, 3, 3, RatInt(2), 30)

\* a candle whose open, high, low and close are one price
Doji(price, volume) == Candle(price, price, price, price, volume)

\* A window: n candles that are BaseCandle, then the candles of tail
BaseCandle == Doji(1000, 10)
Window(n, tail) == [n |-> n, tail |-> tail]
Candles(window) == [i \in 1..window.n |-> BaseCandle] \o window.tail
WindowLen(window) == window.n + Len(window.tail)

\* closes and volumes of the candles after the flat part
Closes == {880, 930, 990, 1000, 1010, 1020}
FarCloses == Closes \cup {900, 999, 1100}
LastVolumes == {10, 20}
Tails1 == {<<Doji(c, v)>> : c \in FarCloses, v \in LastVolumes}
Tails2 == {<<Doji(a, 10), Doji(b, v)>> : a \in Closes, b \in Closes, v \in LastVolumes}
Tails3 == {<<Doji(900, 10), Doji(930, 10), Doji(c, 10)>> : c \in {999, 1010}}

\* lengths of the flat part: three short of the floor, the floor, five above it
FlatLens == {MIN_CANDLES - 3, MIN_CANDLES, MIN_CANDLES + 5}

\* the windows handed to the engines; the long-period engines get windows with at
\* most one candle after the flat part
SignalInputs ==
    {[engine |-> ShortEngine, window |-> Window(n, tail)] :
        n \in {MIN_CANDLES - 3, MIN_CANDLES}, tail \in {<<>>} \cup Tails1 \cup Tails2 \cup Tails3}
    \cup {[engine |-> e, window |-> Window(n, tail)] :
            e \in {DefaultEngine, SlowEngine}, n \in FlatLens, tail \in {<<>>} \cup Tails1}
    \cup {[engine |-> LenientEngine, window |-> Window(MIN_CANDLES, tail)] : tail \in Tails2}
    \cup {[engine |-> e, window |-> Window(n, <<>>)] :
            e \in {DefaultEngine, ShortEngine, SlowEngine}, n \in {0, 1}}

\* the values handed to calculate_confidence
ConfidenceInputs ==
    [action : {"BUY", "SELL", NULL}, close : {RatInt(100)},
     ema_9 : {RatInt(90), Rat(199, 2), Rat(201, 2), RatInt(110)},
     ema_21 : {RatInt(95), RatInt(105)}, ema_200 : {RatInt(90), RatInt(110)},
     volume_ratio : {RatInt(1), Rat(13, 10), RatInt(2)}]

\* the times at which a call may happen (datetime.now())
Times == {1, 2}

NoReadings ==
    [current_close |-> RatInt(0), current_ema_9 |-> RatInt(0),
     current_ema_21 |-> RatInt(0), current_ema_200 |-> RatInt(0),
     prev_ema_9 |-> RatInt(0), prev_ema_21 |-> RatInt(0), volume_ratio |-> RatInt(0)]
NoValues ==
    [action |-> NULL, close |-> RatInt(0), ema_9 |-> RatInt(0), ema_21 |-> RatInt(0),
     ema_200 |-> RatInt(0), volume_ratio |-> RatInt(0)]

\* What a caller of the engine keeps: the call (op, the engine, the window or the
\* values), whether it has returned, the signal or the score it returned, and for
\* get_signal the values the engine read off the candles
EngineCall(op, engine, window, values, done, signal, readings, confidence) ==
    [signal |-> signal, op |-> op, engine |-> engine, window |-> window,
     values |-> values, done |-> done, readings |-> readings, confidence |-> confidence]

NoCall == EngineCall("none", DefaultEngine, Window(0, <<>>), NoValues, FALSE, NoSignal, NoReadings, 0)

InitSignal ==
    /\ bot = InitBot(Config(TRUE, 1, 1))
    /\ env = InitEnv
    /\ pc = [t \in Tasks |-> "idle"]
    /\ stop_pc = "idle"
    /\ \E call \in
            {EngineCall("get_signal", in.engine, in.window, NoValues, FALSE, NoSignal,
                        NoReadings, 0) : in \in SignalInputs}
            \cup {EngineCall("calculate_confidence", DefaultEngine, Window(0, <<>>), v,
                             FALSE, NoSignal, NoReadings, 0) : v \in ConfidenceInputs} :
         frame = [t \in Tasks |-> IF t = 1 THEN call ELSE NoCall]

\* signal = engine.get_signal(ohlcv_data)
GetSignal ==
    /\ frame[1].op = "get_signal" /\ ~frame[1].done
    /\ \E now \in Times :
         LET call == frame[1]
             ohlcv_data == Candles(call.window)
         IN  frame' = [frame EXCEPT ![1] =
                 [call EXCEPT !.done = TRUE,
                              !.signal = StrategyEngine_get_signal(call.engine, ohlcv_data, now),
                              !.readings = IF Len(ohlcv_data) < MinCandles(call.engine)
                                              \/ Len(ohlcv_data) < call.engine.ema_slow
                                           THEN NoReadings
                                           ELSE Readings(call.engine, ohlcv_data)]]
    /\ UNCHANGED <<bot, env, pc, stop_pc>>

\* confidence = engine.calculate_confidence(action, close, ema_9, ema_21, ema_200, volume_ratio)
GetConfidence ==
    /\ frame[1].op = "calculate_confidence" /\ ~frame[1].done
    /\ LET v == frame[1].values
       IN  frame' = [frame EXCEPT ![1] =
               [frame[1] EXCEPT !.done = TRUE,
                                !.confidence = calculate_confidence(v.action, v.close,
                                                   v.ema_9, v.ema_21, v.ema_200,
                                                   v.volume_ratio)]]
    /\ UNCHANGED <<bot, env, pc, stop_pc>>

NextSignal ==
    \/ GetSignal
    \/ GetConfidence

SpecSignal == InitSignal /\ [][NextSignal]_vars

\* the inputs of the repeated calls: the short-period engine and windows of
\* MIN_CANDLES flat candles and one or three candles more
RepeatInputs ==
    {[engine |-> ShortEngine, window |-> Window(MIN_CANDLES, tail)] : tail \in Tails1 \cup Tails3}

\* every caller has an engine of its own, all with the same parameters, and the
\* same candle window
InitRepeat ==
    /\ bot = InitBot(Config(TRUE, 1, 1))
    /\ env = InitEnv
    /\ pc = [t \in Tasks |-> "idle"]
    /\ stop_pc = "idle"
    /\ \E in \in RepeatInputs :
         frame = [t \in Tasks |->
                     EngineCall("get_signal", in.engine, in.window, NoValues, FALSE,
                                NoSignal, NoReadings, 0)]

\* caller t calls get_signal of its engine, for the first time or once more;
\* get_signal assigns no attribute of the engine
Invoke(t) ==
    /\ \E now \in Times :
         frame' = [frame EXCEPT ![t] =
             [frame[t] EXCEPT !.done = TRUE,
                              !.signal = StrategyEngine_get_signal(frame[t].engine,
                                             Candles(frame[t].window), now)]]
    /\ UNCHANGED <<bot, env, pc, stop_pc>>

NextRepeat == \E t \in Tasks : Invoke(t)

\* repeated calls of get_signal, on one engine and on several, in any order
SpecRepeat == InitRepeat /\ [][NextRepeat]_vars

(***************************************************************************)
(* calculate_position_size on its own: the risk manager of the usage       *)
(* example and a small account, one symbol of every pip class, stops at,   *)
(* near, far from and beyond the entry, and every kind of risk percent     *)
(* (None, zero, below, at and above the maximum); an account without       *)
(* equity is among the risk managers.                                      *)
(***************************************************************************)
ExampleManager == [equity |-> 10000, leverage |-> 100, max_risk_percent |-> 2,
                   default_risk_percent |-> 1]
SmallManager == [equity |-> 100, leverage |-> 50, max_risk_percent |-> 2,
                 default_risk_percent |-> 1]
\* BotConfig and RiskManager accept any number as equity
EmptyManager == [equity |-> 0, leverage |-> 100, max_risk_percent |-> 2,
                 default_risk_percent |-> 1]
\* the default risk percent is itself above the maximum
EagerManager == [equity |-> 10000, leverage |-> 100, max_risk_percent |-> 2,
                 default_risk_percent |-> 5]

Trade(symbol, entry_price, stop_loss, take_profit) ==
    [symbol |-> symbol, entry_price |-> entry_price, stop_loss |-> stop_loss,
     take_profit |-> take_profit]

SizerTrades ==
    {Trade("XAUUSD", 2050, sl, tp) : sl \in {2050, 2040, 1800, 2060}, tp \in {2065, 2050}}
    \cup {Trade("EURUSD", 2, sl, tp) : sl \in {2, 1, 3}, tp \in {4, 1}}
    \cup {Trade("USDJPY", 150, sl, tp) : sl \in {150, 149, 145, 155}, tp \in {152, 140}}
    \cup {Trade("BTCUSD", 30000, sl, tp) : sl \in {30000, 29000, 31000}, tp \in {32000}}

RiskPercents == {<<>>, <<0>>, <<1>>, <<2>>, <<3>>}

SizerInputs ==
    {[rm |-> rm, trade |-> t, risk_percent |-> rp] :
        rm \in {ExampleManager, SmallManager, EmptyManager}, t \in SizerTrades, rp \in RiskPercents}
    \cup {[rm |-> EagerManager, trade |-> t, risk_percent |-> <<>>] : t \in SizerTrades}

\* the PositionSize a caller holds before calculate_position_size has returned
NoPosition ==
    [lot_size |-> RatInt(0), units |-> 0, risk_amount |-> RatInt(0), risk_percent |-> 0,
     stop_loss_pips |-> 0, potential_loss |-> RatInt(0), potential_profit |-> RatInt(0),
     margin_required |-> RatInt(0), is_valid |-> FALSE, warning |-> <<>>]

SizerCall(rm, trade, risk_percent, done, position) ==
    [rm |-> rm, trade |-> trade, risk_percent |-> risk_percent, done |-> done,
     position |-> position]

NoSizerCall == SizerCall(ExampleManager, Trade("XAUUSD", 0, 0, 0), <<>>, FALSE, NoPosition)

InitSizer ==
    /\ bot = InitBot(Config(TRUE, 1, 1))
    /\ env = InitEnv
    /\ pc = [t \in Tasks |-> "idle"]
    /\ stop_pc = "idle"
    /\ \E in \in SizerInputs :
         frame = [t \in Tasks |->
                    IF t = 1 THEN SizerCall(in.rm, in.trade, in.risk_percent, FALSE, NoPosition)
                    ELSE NoSizerCall]

\* position = risk_mgr.calculate_position_size(symbol, entry_price, stop_loss, take_profit,
\*                                             risk_percent)
GetPositionSize ==
    /\ ~frame[1].done
    /\ LET call == frame[1]
       IN  frame' = [frame EXCEPT ![1] =
               [call EXCEPT !.done = TRUE,
                            !.position = calculate_position_size(call.rm, call.trade.symbol,
                                             call.trade.entry_price, call.trade.stop_loss,
                                             call.trade.take_profit, call.risk_percent)]]
    /\ UNCHANGED <<bot, env, pc, stop_pc>>

NextSizer == GetPositionSize

SpecSizer == InitSizer /\ [][NextSizer]_vars

(***************************************************************************)
(* A dry-run instance in operation: its cycles fetch windows, its          *)
(* configuration is updated through update_config, and positions of the    *)
(* simulated port are closed by calls of close_position.                   *)
(***************************************************************************)
\* a signal whose sizing is valid at 1 and at 2 percent risk (margins 50 and 100)
WideSignal == Signal("BUY", 50, 40, 65)

\* each cycle fetches one of two windows: one without a signal, one with WideSignal
\* (a cycle that fetches the second again gets the same signal again)
WideWindows ==
    {[len |-> MIN_CANDLES, signal |-> NoSignal], [len |-> 300, signal |-> WideSignal]}

\* the sparse maps update_config is called with: one key and its value
ConfigUpdates == {<<"risk_percent", 2>>, <<"equity", 200>>, <<"unknown_key", 1>>}

InitOperated ==
    /\ \E max_open_positions \in {1, 2} : bot = InitBot(Config(TRUE, max_open_positions, 1))
    /\ env = InitEnv
    /\ pc = [t \in Tasks |-> "idle"]
    /\ frame = [t \in Tasks |-> NoFrame]
    /\ stop_pc = "idle"

\* fetch_ohlcv returns a window
FetchWide(t) == \E ohlcv \in WideWindows : FetchWindow(t, ohlcv)

\* bot.update_config({key: value})
UpdateAny ==
    /\ \E u \in ConfigUpdates :
         /\ u[1] \in DOMAIN bot.config => bot.config[u[1]] # u[2]
         /\ bot' = update_config(bot, u[1], u[2])
    /\ UNCHANGED <<env, pc, frame, stop_pc>>

\* await bot.executor.executor.close_position(position_id, exit_price)
PortClose ==
    /\ bot.executor.kind = "dry"
    /\ \E i \in DOMAIN bot.executor.positions, exit_price \in ExitPrices :
         bot' = [bot EXCEPT !.executor =
                    DryClosePosition(bot.executor, bot.executor.positions[i].id,
                                     exit_price).executor]
    /\ UNCHANGED <<env, pc, frame, stop_pc>>

RunOperated(t) ==
    \/ LoopHead(t)
    \/ FetchWide(t)
    \/ SleepDone(t)

NextOperated ==
    \/ StartSerial
    \/ \E t \in Tasks : RunOperated(t)
    \/ UpdateAny
    \/ PortClose

SpecOperated == InitOperated /\ [][NextOperated]_vars

(***************************************************************************)
(* Properties.                                                             *)
(***************************************************************************)
LastLog(b) == b.logs[Len(b.logs)]

\* a step in which a cycle of the controller hands a signal to _execute_signal
SignalArrives == "_execute_signal" \in env'.calls \ env.calls

\* a signal that arrives at the cap is skipped
C1_SkipAtCap ==
    SignalArrives /\ Len(bot.open_positions) >= bot.config.max_open_positions
        => /\ LastLog(bot').level = "WARNING"
           /\ LastLog(bot').message = "max_positions"
           /\ env'.calls = {"get_signal", "_execute_signal"}
           /\ env'.execute_trade_calls = env.execute_trade_calls
           /\ env'.orders = env.orders
           /\ bot'.open_positions = bot.open_positions

\* C1: with max_open_positions fixed at N the open-position list never holds more
\* than N entries; a signal that arrives while it holds N is skipped with a WARNING
\* log, and neither the sizer nor execute_trade is called for it.
C1_PositionCap ==
    /\ [](Len(bot.open_positions) <= bot.config.max_open_positions)
    /\ [][C1_SkipAtCap]_vars

\* a signal has been skipped at the cap
C1_Witness ==
    /\ Len(bot.open_positions) = bot.config.max_open_positions
    /\ LastLog(bot).message = "max_positions"
    /\ env.calls = {"get_signal", "_execute_signal"}

\* what the Position Sizer returns to the controller for a signal
SizingFor(b, signal) ==
    calculate_position_size(b.risk_manager, b.config.symbol, signal.entry_price,
                            signal.stop_loss, signal.take_profit, <<b.config.risk_percent>>)

\* places where start() is suspended inside the live port's execute_trade
InLivePort == {"balance", "market", "sl_leg", "tp_leg"}

\* a step in which the controller has a signal sized, with an invalid result
InvalidSizing ==
    /\ "calculate_position_size" \in env'.calls \ env.calls
    /\ ~SizingFor(bot, bot'.current_signal).is_valid

\* a step places nothing from an invalid sizing result
C2_Step ==
    /\ InvalidSizing
           => /\ env'.calls \cap {"execute_signal", "execute_trade"} = {}
              /\ env'.execute_trade_calls = env.execute_trade_calls
              /\ env'.orders = env.orders
              /\ \A t \in Tasks : pc'[t] \notin InLivePort
              /\ bot'.executor = bot.executor
    /\ env'.execute_trade_calls # env.execute_trade_calls
           => SizingFor(bot, bot'.current_signal).is_valid
    /\ env'.orders # env.orders
           => \E t \in Tasks : /\ pc[t] \in InLivePort
                               /\ SizingFor(bot, frame[t].signal).is_valid

\* C2: no order is placed from an invalid sizing result: in a cycle in which the
\* Position Sizer returns is_valid = false the port is not called (no execute_signal
\* and no execute_trade, simulated or live), and every execute_trade call and every
\* order sent to the venue belongs to a signal whose sizing is valid.
C2_NoOrderFromInvalidSizing == [][C2_Step]_vars

\* a signal has been sized invalidly and skipped
C2_Witness ==
    /\ "calculate_position_size" \in env.calls
    /\ ~SizingFor(bot, bot.current_signal).is_valid
    /\ LastLog(bot).message = "size_invalid"
    /\ env.execute_trade_calls = 0

\* stop() has just been called in state ANALYZING, with a cycle in flight
StopAtAnalyzing ==
    /\ bot.state = "STOPPING"
    /\ LastLog(bot) = LogEntry("INFO", "state_changed", <<"ANALYZING", "STOPPING">>)
    /\ \E t \in Tasks : pc[t] = "fetch"

\* C3: if stop() is called while the state is ANALYZING, the state eventually
\* becomes STOPPED, whether the cycle in flight completes, raises or the loop task
\* is cancelled afterwards (also during the error backoff).
C3_StopReachesStopped == StopAtAnalyzing ~> bot.state = "STOPPED"

\* places where start() is inside the loop, and inside a cycle
InLoop == {"loop", "fetch", "balance", "market", "sl_leg", "tp_leg", "sleep", "backoff"}
InCycle == {"fetch", "balance", "market", "sl_leg", "tp_leg"}

\* the step cancels a task after stop()
Cancels == stop_pc = "stopped" /\ stop_pc' = "idle"

\* a step keeps the loop alive
C4_Step ==
    \A t \in Tasks :
        /\ pc[t] \in InCycle /\ pc'[t] = "idle" => Cancels
        /\ pc[t] # "backoff" /\ pc'[t] = "backoff" => LastLog(bot').level = "ERROR"
        /\ pc[t] = "backoff" /\ pc'[t] # "backoff" => pc'[t] = "loop" \/ Cancels
        /\ pc[t] = "loop" /\ pc'[t] # "loop" /\ bot.running => pc'[t] \in {"fetch", "backoff"}

\* C4: an exception raised inside an analysis cycle never terminates the control
\* loop: it is caught at the loop boundary and logged at ERROR level, the backoff
\* follows, and after it the loop runs a further cycle unless stop() was called; a
\* loop leaves a cycle for good only when it is cancelled.
C4_LoopSurvivesException == [][C4_Step]_vars

\* C5: for one instance, under any interleaving of start() and stop() calls, at most
\* one control loop is active and no two analysis cycles overlap.
C5_OneLoop ==
    /\ Cardinality({t \in Tasks : pc[t] \in InLoop}) <= 1
    /\ Cardinality({t \in Tasks : pc[t] \in InCycle}) <= 1

\* the edges of the controller's state machine
StateEdges ==
    {<<"STOPPED", "STARTING">>, <<"STARTING", "RUNNING">>, <<"STARTING", "ERROR">>,
     <<"RUNNING", "ANALYZING">>, <<"ANALYZING", "TRADING">>, <<"ANALYZING", "RUNNING">>,
     <<"TRADING", "RUNNING">>, <<"RUNNING", "STOPPING">>, <<"ANALYZING", "STOPPING">>,
     <<"TRADING", "STOPPING">>, <<"STOPPING", "STOPPED">>}

\* C6: the state changes only along the edges of StateEdges (every change of state
\* is logged with the state before and after it), and when a cycle has ended and
\* the loop sleeps until the next one the state is RUNNING again, unless stop() was
\* called.
C6_StateMachine ==
    /\ \A i \in DOMAIN bot.logs :
          bot.logs[i].message = "state_changed" /\ bot.logs[i].data[1] # bot.logs[i].data[2]
              => bot.logs[i].data \in StateEdges
    /\ \A t \in Tasks : pc[t] = "sleep" /\ bot.running => bot.state = "RUNNING"

\* start() is called
StartCalled == \E t \in Tasks : Start(t)

\* a call of start() in state RUNNING only logs
C7_Step ==
    bot.state = "RUNNING" /\ StartCalled
        => /\ bot' = [bot EXCEPT !.logs = KeepLast(Append(bot.logs,
                                   LogEntry("WARNING", "already_running", <<>>)))]
           /\ pc' = pc
           /\ env' = env

\* C7: start() called when the state is RUNNING is a no-op apart from one WARNING
\* log: components, state, continue-flag, statistics (with the start timestamp) and
\* configuration stay as they are and no loop begins.
C7_StartWhenRunning == [][C7_Step]_vars

\* start() has been called in state RUNNING
C7_Witness ==
    /\ bot.state = "RUNNING"
    /\ LastLog(bot) = LogEntry("WARNING", "already_running", <<>>)

\* the step ends start() because initialize raised and returned False
InitRaised == bot.state # "ERROR" /\ bot'.state = "ERROR"

\* a failed initialize leaves the instance in ERROR, which only start() leaves
C8_Step ==
    /\ InitRaised
          => /\ bot'.running = bot.running
             /\ bot'.stats = bot.stats
             /\ \A t \in Tasks : pc'[t] \in {pc[t], "idle"}
    /\ bot.state = "ERROR" /\ bot'.state # "ERROR" => StartCalled

\* C8: if a component's construction or initialization raises during start(), the
\* state becomes ERROR, start() returns without setting the continue-flag, the state
\* does not become RUNNING and no cycle starts; the state stays ERROR until start()
\* is called again.
C8_InitFailure == [][C8_Step]_vars

\* the port's answer reaches the controller in this step
ResultReturned == env.result = "none" /\ env'.result # "none"

\* the step records a trade
PositionsChanged ==
    \/ bot'.open_positions # bot.open_positions
    \/ bot'.stats.total_trades # bot.stats.total_trades
    \/ env'.trade_events # env.trade_events

\* a step records a trade exactly for a FILLED answer
C9_Step ==
    /\ ResultReturned /\ env'.result = "FILLED"
          => /\ Len(bot'.open_positions) = Len(bot.open_positions) + 1
             /\ bot'.stats.total_trades = bot.stats.total_trades + 1
             /\ Len(env'.trade_events) = Len(env.trade_events) + 1
    /\ ResultReturned /\ env'.result # "FILLED"
          => /\ ~PositionsChanged
             /\ LastLog(bot').level = "ERROR"
    /\ PositionsChanged => ResultReturned /\ env'.result = "FILLED"

\* C9: a position is appended to the open-position list, total_trades counted and a
\* trade event emitted exactly when the port returns FILLED; for every other status
\* they stay as they are and an ERROR log is appended.
C9_FilledOnly == [][C9_Step]_vars

\* a short window ends the cycle with a warning and nothing else
C10_Step ==
    \A t \in Tasks, ohlcv \in Windows :
        FetchWindow(t, ohlcv) /\ ohlcv.len < MIN_CANDLES
            => /\ LastLog(bot').level = "WARNING"
               /\ env' = env
               /\ env'.calls = {}
               /\ bot'.open_positions = bot.open_positions
               /\ bot'.stats = bot.stats
               /\ bot'.executor = bot.executor
               /\ pc'[t] = "sleep"

\* C10: when the data source returns no candles or fewer than the minimum, the
\* cycle logs a warning and ends without a call to the Signal Engine, the Position
\* Sizer or the port, positions and statistics stay as they are, and the loop goes
\* on: it sleeps until the next cycle.
C10_InsufficientData == [][C10_Step]_vars

\* the step appends to the log
LogAppended == bot'.logs # bot.logs

\* an append keeps the entries in order, evicts the oldest one from a full log and
\* calls on_log (seen when on_log fails: the call raises)
C11_Step ==
    LogAppended
        => /\ bot'.logs = IF Len(bot.logs) < LOG_KEEP
                          THEN Append(bot.logs, LastLog(bot'))
                          ELSE Append(Tail(bot.logs), LastLog(bot'))
           /\ bot'.raised <=> "on_log" \in bot.failing

\* what a call of _log makes of the log as it is now, for every entry a caller
\* may append
C11_Append ==
    \A level \in LogLevels, message \in LogMessages :
        LET b == _log(Caught(bot), level, message, <<>>)
            entry == LogEntry(level, message, <<>>)
        IN  /\ b.logs = IF Len(bot.logs) < LOG_KEEP
                        THEN Append(bot.logs, entry)
                        ELSE Append(Tail(bot.logs), entry)
            /\ b.raised <=> "on_log" \in bot.failing

\* C11: the log never holds more than the capacity (1000 in the code, LOG_KEEP here);
\* an append to a full log evicts the oldest entry, so the log is the most recent
\* entries in append order; every appended entry is handed to on_log.
C11_RollingLog ==
    /\ [](Len(bot.logs) <= LOG_KEEP /\ C11_Append)
    /\ [][C11_Step]_vars

\* the first entry has been evicted from a full log, and the last entry was handed
\* to an on_log that fails
C11_Witness ==
    /\ Len(bot.logs) = LOG_KEEP
    /\ \A i \in DOMAIN bot.logs : bot.logs[i].message # "bot_initialized"
    /\ bot.logs[1] # bot.logs[LOG_KEEP]
    /\ bot.raised

\* a step of a loop, of start() or of stop() goes as it does with subscribers that
\* never fail
C12_Step ==
    /\ \A t \in Tasks :
          /\ pc[t] \in InLoop /\ pc'[t] = "idle"
                => Cancels \/ (~bot.running /\ bot'.state = "STOPPED")
          /\ pc[t] = "init" /\ pc'[t] # "init"
                => Cancels \/ bot'.state \in {"RUNNING", "ERROR"}
    /\ bot.state # "RUNNING" /\ StartCalled
          => bot'.state \in {"RUNNING", "ERROR"} \/ \E t \in Tasks : pc'[t] = "init"
    /\ Stop => bot'.state = "STOPPING" /\ ~bot'.running

\* C12: a subscriber whose delivery fails cannot disturb the control loop: a loop
\* ends only by stop() (with state STOPPED) or by cancellation, start() reaches
\* RUNNING unless initialization fails (ERROR), and stop() sets STOPPING and clears
\* the continue-flag.
C12_SubscriberIsolated == [][C12_Step]_vars

\* a cycle is suspended at the candle fetch or in the execution port
CycleSuspended == \E t \in Tasks : pc[t] \in InCycle

\* C13: configuration changes take effect only between cycles: while a cycle is
\* suspended at the candle fetch or at the execution port, the configuration that
\* the cycle reads when it goes on (symbol, risk_percent, max_open_positions) stays
\* the one it had when the cycle started.
C13_ConfigBetweenCycles == [][CycleSuspended => bot'.config = bot.config]_vars

\* start() t is in the live port and the venue has accepted its primary order
PrimaryAccepted(t) == pc[t] \in InLivePort /\ frame[t].order.status # "none"

\* the last record of the open-position list
LastPosition(b) == b.open_positions[Len(b.open_positions)]

\* C14: the controller never loses track of an open position: in live mode, when
\* the venue has accepted the primary market order of a cycle, the open-position
\* list holds a record for it when the port's call has returned to the cycle, also
\* when a stop or target leg failed or the order is reported as not yet closed.
C14_NoLostPosition ==
    [][\A t \in Tasks :
          PrimaryAccepted(t) /\ pc'[t] \notin InLivePort /\ ~Cancels
              => /\ Len(bot'.open_positions) = Len(bot.open_positions) + 1
                 /\ LastPosition(bot').id = frame[t].order.id]_vars

\* the margins of the open positions of a simulated ledger, summed
MarginsUsed(ex) == RatSum([i \in 1..Len(ex.positions) |-> ex.positions[i].margin])

\* the positions of a ledger that have the id
WithId(ex, id) == {i \in 1..Len(ex.positions) : ex.positions[i].id = id}

\* a step that is a simulated execute_trade rejects or fills as the margin demands
C15_Step ==
    LET ex     == bot.executor
        ex1    == bot'.executor
        call   == frame'[1]
        margin == RatMul(call.quantity, Rat(call.price, 100))
        free   == RatSub(ex.balance, MarginsUsed(ex))
    IN  ex1.order_counter = ex.order_counter + 1
            => /\ call.op = "execute_trade"
               /\ ex1.balance = ex.balance
               /\ IF RatGT(margin, free)
                  THEN /\ call.result.status = "REJECTED"
                       /\ call.result.filled_quantity = RatInt(0)
                       /\ ex1.positions = ex.positions
                  ELSE /\ call.result.status = "FILLED"
                       /\ call.result.filled_price = call.price
                       /\ call.result.filled_quantity = call.quantity
                       /\ Len(ex1.positions) = Len(ex.positions) + 1
                       /\ SubSeq(ex1.positions, 1, Len(ex.positions)) = ex.positions
                       /\ WithId(ex1, call.result.order_id) = {Len(ex1.positions)}

\* C15: simulated execute_trade: if the required margin (1% of quantity x price)
\* exceeds the free balance (balance minus the margins of the open positions) the
\* result is REJECTED with filled quantity 0 and balance and positions are unchanged;
\* otherwise it is FILLED at the requested price and quantity and exactly one
\* position with the order's id is appended.
C15_SimulatedExecute == [][C15_Step]_vars

\* an order has been rejected for the margins of the open positions, though the
\* balance alone would cover it
C15_Witness ==
    /\ frame[1].op = "execute_trade"
    /\ frame[1].result.status = "REJECTED"
    /\ bot.executor.positions # <<>>
    /\ ~RatGT(RatMul(frame[1].quantity, Rat(frame[1].price, 100)), bot.executor.balance)

\* the realized PnL of a closed position: (exit - entry) x quantity for BUY,
\* (entry - exit) x quantity for SELL
ClaimedPnl(c) ==
    LET diff == IF c.position.side = "BUY"
                THEN c.exit_price - c.position.entry_price
                ELSE c.position.entry_price - c.exit_price
    IN  RatMul(RatInt(diff), c.position.quantity)

\* the balance of a ledger is what it began with plus the PnL of the closes
C16_Balance ==
    bot.executor.balance =
        RatAdd(RatInt(bot.config.equity),
               RatSum([i \in 1..Len(frame[1].closed) |-> ClaimedPnl(frame[1].closed[i])]))

\* a step that closes an open position credits its PnL and removes it alone
C16_Step ==
    LET ex  == bot.executor
        ex1 == bot'.executor
        c   == frame'[1].closed[Len(frame'[1].closed)]
    IN  frame'[1].closed # frame[1].closed
            => /\ frame'[1].op = "close_position"
               /\ frame'[1].result.status = "FILLED"
               /\ WithId(ex, c.position.id) # {}
               /\ ex1.balance = RatAdd(ex.balance, ClaimedPnl(c))
               /\ ex1.positions = SelectSeq(ex.positions, LAMBDA x : x.id # c.position.id)
               /\ Len(ex1.positions) = Len(ex.positions) - 1

\* C16: simulated close_position of an open position changes the balance by exactly
\* the realized PnL, removes exactly that position and leaves the other positions
\* as they are; over any sequence of fills and closes the balance is the initial
\* balance plus the realized PnL of the closed positions.
C16_ClosePnl ==
    /\ []C16_Balance
    /\ [][C16_Step]_vars

\* a BUY and a SELL position have been closed while another position stays open
C16_Witness ==
    /\ \E i, j \in DOMAIN frame[1].closed :
          /\ frame[1].closed[i].position.side = "BUY"
          /\ frame[1].closed[j].position.side = "SELL"
    /\ bot.executor.positions # <<>>
    /\ bot.executor.balance # RatInt(bot.config.equity)

\* the ids that name no open position of the ledger
UnknownIds(ex) == {id \in PositionIds : WithId(ex, id) = {}}

\* closing an id that names no open position, in the present state, gives ERROR
\* and the same ledger
C17_Unknown ==
    \A id \in UnknownIds(bot.executor) : \A exit_price \in ExitPrices :
        LET closing == DryClosePosition(bot.executor, id, exit_price)
        IN  /\ closing.result.status = "ERROR"
            /\ closing.executor = bot.executor

\* a close_position call for an id that names no open position
C17_Step ==
    (/\ frame'[1].op = "close_position"
     /\ frame'[1].position_id \in UnknownIds(bot.executor))
        => /\ frame'[1].result.status = "ERROR"
           /\ frame'[1].closed = frame[1].closed
           /\ bot'.executor.balance = bot.executor.balance
           /\ bot'.executor.positions = bot.executor.positions
           /\ bot'.executor.order_history = bot.executor.order_history

\* C17: simulated close_position for an id that matches no open position returns
\* ERROR and leaves balance, positions and order history unchanged; closing the
\* same position a second time is such a call.
C17_CloseUnknown ==
    /\ []C17_Unknown
    /\ [][C17_Step]_vars

\* a position that was closed has been closed a second time, other positions open
C17_Witness ==
    /\ frame[1].op = "close_position"
    /\ frame[1].result.status = "ERROR"
    /\ \E i \in DOMAIN frame[1].closed : frame[1].closed[i].position.id = frame[1].position_id
    /\ bot.executor.positions # <<>>

\* quantity x entry price of the execute_trade call task t is in
Notional(t) == RatMul(frame[t].quantity, RatInt(frame[t].signal.entry_price))

\* the step in which the venue reports a free balance to task t
BalanceReported(t) == pc[t] = "balance" /\ env'.free # NoFree

C18_Step ==
    \A t \in Tasks :
        /\ (BalanceReported(t) /\ RatGT(Notional(t), RatInt(env'.free)))
               => /\ env'.result = "REJECTED"
                  /\ env'.orders = env.orders
                  /\ pc'[t] \notin InLivePort
        /\ (pc[t] = "balance" /\ env'.result = "REJECTED")
               => /\ env'.free # NoFree
                  /\ RatGT(Notional(t), RatInt(env'.free))
                  /\ env'.orders = env.orders

\* C18: live execute_trade with quantity x entry price greater than the free
\* balance returns REJECTED and submits nothing to the venue: no market order, no
\* stop order and no target order.
C18_RejectedSubmitsNothing == [][C18_Step]_vars

\* the venue reported less than the notional and the call came back REJECTED with
\* no order at the venue
C18_Witness ==
    /\ env.result = "REJECTED"
    /\ env.free # NoFree
    /\ env.orders = <<>>
    /\ env.execute_trade_calls > 0

\* the primary order that the order at index i of the venue's list belongs to: the
\* last market order before it, 0 if there is none
PrimaryOf(e, i) ==
    LET before == {j \in MarketOrders(e) : j < i}
    IN  IF before = {} THEN 0 ELSE CHOOSE j \in before : \A k \in before : k <= j

\* every protective leg at the venue follows its primary order, the stop leg first,
\* on the opposite side, reduce-only and with the primary order's quantity
C19_Legs ==
    \A i \in DOMAIN env.orders :
        LET leg == env.orders[i]
            m   == PrimaryOf(env, i)
        IN  leg.type # "market"
                => /\ m # 0
                   /\ leg.side = (IF env.orders[m].side = "BUY" THEN "sell" ELSE "buy")
                   /\ leg.reduceOnly
                   /\ leg.amount = env.orders[m].amount
                   /\ leg.type = "stop_market" => i = m + 1
                   /\ leg.type = "take_profit_market"
                         => \/ i = m + 1
                            \/ i = m + 2 /\ env.orders[m + 1].type = "stop_market"

\* the legs sent for the primary order that is the last market order at the venue
LegsOfLast(e, type) ==
    {i \in DOMAIN e.orders :
        /\ e.orders[i].type = type
        /\ PrimaryOf(e, i) = PrimaryOf(e, Len(e.orders) + 1)}

C19_Step ==
    \A t \in Tasks :
        \* a leg is sent only by a call whose primary order was accepted, with the
        \* trigger price of its signal
        /\ (pc[t] \in InLivePort /\ Len(env'.orders) > Len(env.orders)
                /\ env'.orders[Len(env'.orders)].type # "market")
              => LET leg == env'.orders[Len(env'.orders)]
                 IN  /\ frame'[t].order.status # "none"
                     /\ leg.stopPrice = (IF leg.type = "stop_market"
                                         THEN frame'[t].signal.stop_loss
                                         ELSE frame'[t].signal.take_profit)
        \* when the call returns after an accepted primary order, every leg that
        \* was asked for has been sent
        /\ (PrimaryAccepted(t) /\ pc'[t] \notin InLivePort /\ ~Cancels)
              => /\ frame[t].signal.stop_loss # 0
                       => LegsOfLast(env', "stop_market") # {}
                 /\ frame[t].signal.take_profit # 0
                       => LegsOfLast(env', "take_profit_market") # {}

\* C19: live execute_trade submits the protective legs only after the primary
\* market order has been accepted, stop leg before target leg; each leg is on the
\* opposite side of the primary order, is reduce-only, has the same quantity and
\* uses the given trigger price; whenever a stop price or a target price is
\* provided and the primary order succeeded, the corresponding leg is submitted.
C19_ProtectiveLegs ==
    /\ []C19_Legs
    /\ [][C19_Step]_vars

\* the step in which a venue call of task t's execute_trade raises
VenueCallFails(t) == pc[t] \in InLivePort /\ env'.failed # env.failed

\* the log holds an ERROR entry for the failed order
FailureLogged(b) ==
    \E i \in DOMAIN b.logs : b.logs[i].level = "ERROR" /\ b.logs[i].message = "order_failed"

C20_Step ==
    \A t \in Tasks :
        VenueCallFails(t)
            => /\ env'.failed # NULL
               /\ env'.result = "ERROR"
               /\ env'.error = env'.failed
               /\ env'.orders = env.orders
               /\ pc'[t] \notin InLivePort
               /\ "on_log" \notin bot.failing => pc'[t] = "sleep" /\ ~bot'.raised
               /\ FailureLogged(bot')

\* C20: in live execute_trade a failure of any venue call (balance fetch, market
\* order, stop leg, target leg) yields a result with status ERROR carrying the
\* failure's message and does not raise to the caller; a failed stop or target leg
\* after a successful primary order is reported the same way and logged as a
\* failed order, never dropped silently.
C20_VenueFailureIsError == [][C20_Step]_vars

\* the target leg failed after an accepted primary order and a stop leg, and the
\* call came back ERROR with the failure's message
C20_Witness ==
    /\ env.failed = "target_leg"
    /\ env.result = "ERROR"
    /\ env.error = "target_leg"
    /\ Len(env.orders) >= 3
    /\ FailureLogged(bot)

\* the call of get_signal has returned
SignalReturned == frame[1].op = "get_signal" /\ frame[1].done

\* C21: for every candle sequence shorter than max(slow_period + 10, 250),
\* get_signal returns none and raises nothing (the call returns).
C21_ShortWindowNoSignal ==
    \A call \in {frame[1]} :
        LET slow == call.engine.ema_slow
            need == IF slow + 10 > 250 THEN slow + 10 ELSE 250
        IN  (SignalReturned /\ WindowLen(call.window) < need) => call.signal = NoSignal

\* a window of 250 candles or more, yet shorter than the slow period asks for, has
\* been answered with none
C21_Witness ==
    /\ SignalReturned
    /\ WindowLen(frame[1].window) >= 250
    /\ WindowLen(frame[1].window) < frame[1].engine.ema_slow + 10
    /\ frame[1].window.tail # <<>>
    /\ frame[1].signal = NoSignal

\* get_signal has returned after reading the candles
SignalDecided == SignalReturned /\ frame[1].readings # NoReadings

\* the fast average went from at-or-below the medium one to above it
CrossedUp(r) ==
    RatLE(r.prev_ema_9, r.prev_ema_21) /\ RatGT(r.current_ema_9, r.current_ema_21)

\* the fast average went from at-or-above the medium one to below it
CrossedDown(r) ==
    RatLE(r.prev_ema_21, r.prev_ema_9) /\ RatLT(r.current_ema_9, r.current_ema_21)

\* C22: if the fast and medium EMA values of the latest two samples show no
\* crossover, get_signal returns none whatever the trend, stop, target and
\* confidence would be.
C22_NoCrossoverNoSignal ==
    (SignalDecided /\ ~CrossedUp(frame[1].readings) /\ ~CrossedDown(frame[1].readings))
        => frame[1].signal = NoSignal

\* the close is above the slow average and the fast average above the medium one,
\* as it was one candle before: no crossover, and none was returned
C22_Witness ==
    /\ SignalDecided
    /\ RatGT(frame[1].readings.current_close, frame[1].readings.current_ema_200)
    /\ RatGT(frame[1].readings.current_ema_9, frame[1].readings.current_ema_21)
    /\ RatGT(frame[1].readings.prev_ema_9, frame[1].readings.prev_ema_21)
    /\ frame[1].signal = NoSignal

\* C23: every signal returned by get_signal agrees with the trend filter: BUY only
\* when the latest close is strictly above the slow EMA and the crossover is
\* bullish, SELL only when the close is strictly below the slow EMA and the
\* crossover is bearish; a crossover against the trend, or a close exactly equal
\* to the slow EMA, yields none.
C23_TrendFilter ==
    SignalDecided =>
        LET r == frame[1].readings
            signal == frame[1].signal
        IN  /\ signal.action \in {"BUY", "SELL", "NONE"}
            /\ signal.action = "BUY"
                  => RatGT(r.current_close, r.current_ema_200) /\ CrossedUp(r)
            /\ signal.action = "SELL"
                  => RatLT(r.current_close, r.current_ema_200) /\ CrossedDown(r)
            /\ (CrossedUp(r) /\ RatLT(r.current_close, r.current_ema_200))
                  => signal = NoSignal
            /\ (CrossedDown(r) /\ RatGT(r.current_close, r.current_ema_200))
                  => signal = NoSignal
            /\ RatEQ(r.current_close, r.current_ema_200) => signal = NoSignal

\* a bullish crossover below the slow average has been answered with none
C23_Witness ==
    /\ SignalDecided
    /\ CrossedUp(frame[1].readings)
    /\ RatLT(frame[1].readings.current_close, frame[1].readings.current_ema_200)
    /\ frame[1].signal = NoSignal

\* BUY and SELL signals are returned, and a close equal to the slow average occurs
C23_Buy == SignalDecided /\ frame[1].signal.action = "BUY"
C23_Sell == SignalDecided /\ frame[1].signal.action = "SELL"
C23_OnTheAverage ==
    SignalDecided /\ RatEQ(frame[1].readings.current_close, frame[1].readings.current_ema_200)

\* two results of get_signal that are equal in every field but the timestamp
SameButTimestamp(a, b) ==
    /\ a.action = b.action
    /\ a.action \in {"BUY", "SELL"}
          => /\ a.entry_price = b.entry_price
             /\ a.stop_loss = b.stop_loss
             /\ a.take_profit = b.take_profit
             /\ a.swing_point = b.swing_point
             /\ a.ema_9 = b.ema_9 /\ a.ema_21 = b.ema_21 /\ a.ema_200 = b.ema_200
             /\ a.risk_reward_ratio = b.risk_reward_ratio
             /\ a.confidence = b.confidence

\* the engines that were called agree
C24_Engines ==
    \A t1, t2 \in Tasks :
        frame[t1].done /\ frame[t2].done
            => SameButTimestamp(frame[t1].signal, frame[t2].signal)

\* a further call on an engine agrees with the call before it
C24_Again ==
    \A t \in Tasks :
        frame[t].done /\ frame'[t].done
            => SameButTimestamp(frame[t].signal, frame'[t].signal)

ConfidenceReturned == frame[1].op = "calculate_confidence" /\ frame[1].done

\* the score of the values get_signal read, for the direction d
ScoreOf(r, d) ==
    calculate_confidence(d, r.current_close, r.current_ema_9, r.current_ema_21,
                         r.current_ema_200, r.volume_ratio)

\* C25: calculate_confidence returns a value in [0, 100] for every input, and
\* get_signal returns a signal only if its confidence is at least min_confidence:
\* every returned signal has min_confidence <= confidence <= 100.
C25_ConfidenceBounds ==
    /\ ConfidenceReturned => frame[1].confidence >= 0 /\ frame[1].confidence <= 100
    /\ (SignalDecided /\ frame[1].signal # NoSignal)
          => /\ frame[1].signal.confidence = ScoreOf(frame[1].readings, frame[1].signal.action)
             /\ frame[1].signal.confidence >= frame[1].engine.min_confidence
             /\ frame[1].signal.confidence <= 100

\* calculate_confidence has returned 0 for a BUY that has nothing for it and is
\* too far above the fast average (the points add up to -10)
C25_Witness ==
    /\ ConfidenceReturned
    /\ frame[1].values.action = "BUY"
    /\ frame[1].values.ema_9 = RatInt(90)
    /\ frame[1].values.ema_21 = RatInt(95)
    /\ frame[1].values.ema_200 = RatInt(110)
    /\ frame[1].values.volume_ratio = RatInt(1)
    /\ frame[1].confidence = 0

\* a bullish crossover in an uptrend was answered with none for its confidence
C25_Discarded ==
    /\ SignalDecided
    /\ CrossedUp(frame[1].readings)
    /\ RatGT(frame[1].readings.current_close, frame[1].readings.current_ema_200)
    /\ ScoreOf(frame[1].readings, "BUY") < frame[1].engine.min_confidence
    /\ frame[1].signal = NoSignal

\* the stop get_signal derives for a call that has a crossover with the trend: a
\* thousandth below the swing low for BUY, above the swing high for SELL
StopOf(call) ==
    LET ohlcv_data == Candles(call.window)
        n == Len(ohlcv_data)
        lookback == call.engine.swing_lookback
        low  == find_swing_low([i \in 1..n |-> ohlcv_data[i].low], lookback)
        high == find_swing_high([i \in 1..n |-> ohlcv_data[i].high], lookback)
    IN  IF CrossedUp(call.readings)
        THEN Rat(low * 999, 1000)
        ELSE Rat(high * 1001, 1000)

\* the call has a crossover that agrees with the trend
WithTheTrend(r) ==
    \/ CrossedUp(r) /\ RatGT(r.current_close, r.current_ema_200)
    \/ CrossedDown(r) /\ RatLT(r.current_close, r.current_ema_200)

\* C26: for every returned signal the stop distance |entry - stop| is non-zero,
\* the target distance equals stop distance x min_rrr, and the target is on the
\* profitable side of entry (above entry for BUY, below entry for SELL); a zero
\* stop distance yields none.
C26_StopAndTarget ==
    /\ (SignalDecided /\ frame[1].signal # NoSignal)
          => LET signal == frame[1].signal
                 stop_distance == RatAbs(RatSub(signal.entry_price, signal.stop_loss))
                 target_distance == RatAbs(RatSub(signal.take_profit, signal.entry_price))
             IN  /\ signal.stop_loss = StopOf(frame[1])
                 /\ ~RatEQ(stop_distance, RatInt(0))
                 /\ RatEQ(target_distance, RatMul(stop_distance, frame[1].engine.min_rrr))
                 /\ signal.action = "BUY" => RatGT(signal.take_profit, signal.entry_price)
                 /\ signal.action = "SELL" => RatLT(signal.take_profit, signal.entry_price)
    /\ (SignalDecided /\ WithTheTrend(frame[1].readings)
           /\ RatEQ(StopOf(frame[1]), frame[1].readings.current_close))
          => frame[1].signal = NoSignal

\* a bullish crossover in an uptrend whose stop, a thousandth below the swing low
\* of 1000, is the close of 999; none was returned
C26_Witness ==
    /\ SignalDecided
    /\ WithTheTrend(frame[1].readings)
    /\ RatEQ(StopOf(frame[1]), frame[1].readings.current_close)
    /\ ScoreOf(frame[1].readings, "BUY") >= frame[1].engine.min_confidence
    /\ frame[1].signal = NoSignal

\* calculate_position_size has returned to its caller (or left it by an exception)
SizerReturned == frame[1].done

SizerResult == frame[1].position

\* C27: whenever calculate_position_size is called with stop_loss equal to
\* entry_price, whatever the symbol, the equity and the risk percent, it raises no
\* ZeroDivisionError and returns is_valid = false with lot_size 0, units 0 and
\* margin_required 0
C27_EqualStopIsInvalid ==
    (SizerReturned /\ frame[1].trade.stop_loss = frame[1].trade.entry_price)
        => /\ SizerResult # ZeroDivisionError
           /\ ~SizerResult.is_valid
           /\ SizerResult.lot_size = RatInt(0)
           /\ SizerResult.units = 0
           /\ SizerResult.margin_required = RatInt(0)

\* a call with stop_loss = entry_price and a clamped risk percent has returned
C27_Witness ==
    /\ SizerReturned
    /\ frame[1].trade.stop_loss = frame[1].trade.entry_price
    /\ frame[1].trade.symbol = "USDJPY"
    /\ frame[1].risk_percent = <<3>>
    /\ ~SizerResult.is_valid

Seq2Set(s) == {s[i] : i \in DOMAIN s}

\* the call of the usage example: XAUUSD, entry 2050, stop 2040, risk 1 percent on an
\* equity of 10000 with leverage 100
ExampleCall ==
    /\ frame[1].rm = ExampleManager
    /\ frame[1].trade.symbol = "XAUUSD"
    /\ frame[1].trade.entry_price = 2050
    /\ frame[1].trade.stop_loss = 2040
    /\ frame[1].risk_percent = <<1>>

\* C28: a result of calculate_position_size whose margin_required exceeds the equity
\* has is_valid = false and a warning that names the margin; a result with
\* is_valid = true has margin_required <= equity; and for equity 10000, leverage 100,
\* XAUUSD, entry 2050, stop 2040 and risk 1 percent the risk amount is 100, the stop is
\* 100 pips, the lot size is 0.10 and the result is invalid
C28_MarginWithinEquity ==
    (SizerReturned /\ SizerResult # ZeroDivisionError)
        => /\ RatGT(SizerResult.margin_required, RatInt(frame[1].rm.equity))
                => /\ ~SizerResult.is_valid
                   /\ "margin" \in Seq2Set(SizerResult.warning)
           /\ SizerResult.is_valid
                => RatLE(SizerResult.margin_required, RatInt(frame[1].rm.equity))
           /\ ExampleCall
                => /\ SizerResult.risk_amount = RatInt(100)
                   /\ SizerResult.stop_loss_pips = 100
                   /\ SizerResult.lot_size = Rat(1, 10)
                   /\ ~SizerResult.is_valid

\* the call of the usage example has returned: its margin of 205000 exceeds the equity
C28_Witness ==
    /\ SizerReturned
    /\ ExampleCall
    /\ SizerResult.margin_required = RatInt(205000)
    /\ SizerResult.warning = <<"margin">>

\* a call has returned a valid result with a margin above zero
C28_Valid ==
    /\ SizerReturned
    /\ SizerResult.is_valid
    /\ RatGT(SizerResult.margin_required, RatInt(0))

\* |entry_price - stop_loss| and |entry_price - take_profit| of the call
StopDistance == Abs(frame[1].trade.entry_price - frame[1].trade.stop_loss)
TargetDistance == Abs(frame[1].trade.entry_price - frame[1].trade.take_profit)

\* C29: every result of calculate_position_size with is_valid = true has
\* potential_loss = risk_amount = equity * applied risk percent / 100, and its
\* potential_profit / potential_loss is target distance / stop distance (as
\* potential_profit x stop distance = potential_loss x target distance, which
\* also covers a risk amount of zero)
C29_LossIsRiskAmount ==
    (SizerReturned /\ SizerResult # ZeroDivisionError /\ SizerResult.is_valid)
        => /\ SizerResult.potential_loss = SizerResult.risk_amount
           /\ SizerResult.risk_amount
                = Rat(frame[1].rm.equity * SizerResult.risk_percent, 100)
           /\ StopDistance # 0
           /\ RatMul(SizerResult.potential_profit, RatInt(StopDistance))
                = RatMul(SizerResult.potential_loss, RatInt(TargetDistance))

\* a valid result whose pip value is not a whole number: USDJPY, 500 pips of stop and
\* 200 pips of target, a loss of 100 and a profit of 40
C29_Witness ==
    /\ SizerReturned
    /\ SizerResult.is_valid
    /\ frame[1].trade.symbol = "USDJPY"
    /\ SizerResult.stop_loss_pips = 500
    /\ SizerResult.potential_loss = RatInt(100)
    /\ SizerResult.potential_profit = RatInt(40)

\* the risk percent the caller asked for: the argument, or default_risk_percent for None
RequestedRisk ==
    IF frame[1].risk_percent = <<>> THEN frame[1].rm.default_risk_percent
    ELSE frame[1].risk_percent[1]

AboveMaximum == RequestedRisk > frame[1].rm.max_risk_percent

\* the applied risk percent is at most max_risk_percent, is the maximum when more was
\* asked for, and risk_amount is computed from it
C30_Clamped ==
    (SizerReturned /\ SizerResult # ZeroDivisionError)
        => /\ SizerResult.risk_percent <= frame[1].rm.max_risk_percent
           /\ AboveMaximum => SizerResult.risk_percent = frame[1].rm.max_risk_percent
           /\ ~AboveMaximum => SizerResult.risk_percent = RequestedRisk
           /\ SizerResult.risk_amount
                = Rat(frame[1].rm.equity * SizerResult.risk_percent, 100)

\* a valid result of a call that asked for more than the maximum carries the warning
C30_ReportedIfValid ==
    (SizerReturned /\ SizerResult # ZeroDivisionError /\ AboveMaximum
        /\ SizerResult.is_valid)
        => "risk_clamped" \in Seq2Set(SizerResult.warning)

\* C30: the risk percent applied by calculate_position_size never exceeds
\* max_risk_percent, a requested value above the maximum is replaced by the maximum,
\* risk_amount is computed from the clamped value, and the result of such a call
\* carries the warning that the risk was clamped, also when it is invalid for
\* another reason
C30_ClampReported ==
    /\ C30_Clamped
    /\ (SizerReturned /\ SizerResult # ZeroDivisionError /\ AboveMaximum)
            => "risk_clamped" \in Seq2Set(SizerResult.warning)

\* a valid result that carries the clamping warning
C30_ValidClamped ==
    /\ SizerReturned
    /\ AboveMaximum
    /\ SizerResult.is_valid
    /\ "risk_clamped" \in Seq2Set(SizerResult.warning)

\* stop() has set STOPPING and no start() has changed the state since
StopCalled == bot.state = "STOPPING"

\* a step of start() begins an analysis cycle
CycleBegins == \E t \in Tasks : pc[t] = "loop" /\ pc'[t] = "fetch"

\* a start() is suspended in `await self.executor.initialize()`
Connecting == \E t \in Tasks : pc[t] = "init"

\* after stop() no cycle begins, and a start() that stop() found connecting does not
\* go on into RUNNING
C31_Step ==
    /\ StopCalled => ~CycleBegins
    /\ StopCalled /\ Connecting => bot'.state # "RUNNING"

\* after stop() the state eventually becomes STOPPED
C31_Reaches == StopCalled ~> bot.state = "STOPPED"

\* no cycle begins after stop()
C31_NoFurtherCycle == [][StopCalled => ~CycleBegins]_vars

\* stop() during STARTING is not overridden
C31_NotOverridden == [][StopCalled /\ Connecting => bot'.state # "RUNNING"]_vars

\* C31: stop() is safe in every state: after stop() is called in any state (STOPPED
\* before any start, STARTING while initialization is suspended at the executor's
\* connect, RUNNING during the sleep between cycles, ANALYZING, TRADING, ERROR) the
\* state eventually becomes STOPPED, no further cycle begins after the one in
\* flight, and a stop() issued during STARTING is not overridden by start() going on
\* into RUNNING.
C31_StopIsSafe == C31_Reaches /\ [][C31_Step]_vars

\* the step ends `await self.executor.initialize()` of the start() t with a port
\* that is not connected: connect returned False
ConnectFailed(t) ==
    /\ pc[t] = "init" /\ pc'[t] # "init"
    /\ ~Cancels
    /\ ~bot'.executor.is_connected

C32_Step ==
    \A t \in Tasks :
        ConnectFailed(t) => /\ bot'.state = "ERROR"
                            /\ ~bot'.running
                            /\ pc'[t] = "idle"

\* C32: if the execution port fails to connect during start() (connect reports the
\* failure by returning False), the controller treats it as a failure of the
\* initialization: the state becomes ERROR, not RUNNING, and no cycle is run
\* against the unconnected port.
C32_ConnectFailureIsError == [][C32_Step]_vars

\* get_signal has returned a signal
BuyReturned == SignalDecided /\ frame[1].signal # NoSignal /\ frame[1].signal.action = "BUY"
SellReturned == SignalDecided /\ frame[1].signal # NoSignal /\ frame[1].signal.action = "SELL"

\* the swing low and the swing high of the window of the call, as the engine finds them
SwingLowOf(call) ==
    LET ohlcv_data == Candles(call.window)
    IN  find_swing_low([i \in 1..Len(ohlcv_data) |-> ohlcv_data[i].low],
                       call.engine.swing_lookback)
SwingHighOf(call) ==
    LET ohlcv_data == Candles(call.window)
    IN  find_swing_high([i \in 1..Len(ohlcv_data) |-> ohlcv_data[i].high],
                        call.engine.swing_lookback)

\* the stop of a returned signal is a thousandth beyond the swing point
C35_Offset ==
    /\ BuyReturned => frame[1].signal.stop_loss = Rat(SwingLowOf(frame[1]) * 999, 1000)
    /\ SellReturned => frame[1].signal.stop_loss = Rat(SwingHighOf(frame[1]) * 1001, 1000)

\* C35: in every returned signal the stop is on the losing side of entry:
\* stop < entry < target for BUY and target < entry < stop for SELL, where the stop
\* is 0.1 percent below the most recent swing low (BUY) or above the most recent
\* swing high (SELL) of the window
C35_StopOnLosingSide ==
    /\ C35_Offset
    /\ BuyReturned => /\ RatLT(frame[1].signal.stop_loss, frame[1].signal.entry_price)
                      /\ RatLT(frame[1].signal.entry_price, frame[1].signal.take_profit)
    /\ SellReturned => /\ RatLT(frame[1].signal.take_profit, frame[1].signal.entry_price)
                       /\ RatLT(frame[1].signal.entry_price, frame[1].signal.stop_loss)

\* a BUY signal whose stop is below its entry
C35_BuyBelow ==
    BuyReturned /\ RatLT(frame[1].signal.stop_loss, frame[1].signal.entry_price)

\* C36: every result of calculate_position_size with is_valid = true has
\* lot_size > 0, for every equity, risk percent and stop distance the configuration
\* allows (equity 0 and risk_percent 0 among them), so that no order with a zero or
\* negative quantity is passed to the execution port
C36_PositiveQuantity ==
    (SizerReturned /\ SizerResult # ZeroDivisionError /\ SizerResult.is_valid)
        => RatGT(SizerResult.lot_size, RatInt(0))

\* no result has a negative lot size
C36_NotNegative ==
    (SizerReturned /\ SizerResult # ZeroDivisionError)
        => RatLE(RatInt(0), SizerResult.lot_size)

\* with a positive equity and a positive risk percent a valid result has a
\* positive lot size
C36_PositiveRisk ==
    (SizerReturned /\ SizerResult # ZeroDivisionError /\ SizerResult.is_valid
        /\ frame[1].rm.equity > 0 /\ RequestedRisk > 0)
        => RatGT(SizerResult.lot_size, RatInt(0))

\* C37: in the simulated ledger the free balance (the balance less the margins of
\* the open positions) is never negative, after any sequence of execute_trade and
\* close_position calls that starts from a balance that is not negative
C37_FreeNotNegative == RatLE(RatInt(0), DryFree(bot.executor))

\* as long as no position has been closed the free balance is not negative
C37_BeforeAnyClose == frame[1].closed = <<>> => RatLE(RatInt(0), DryFree(bot.executor))

\* stop() has been called and has disconnected the execution port
PortDisconnected ==
    /\ StopCalled
    /\ ~bot.running
    /\ bot.executor # NoComponent
    /\ ~bot.executor.is_connected

\* the positions of the simulated ledger (none for the live port)
LedgerPositions(b) == IF b.executor.kind = "dry" THEN b.executor.positions ELSE <<>>

\* a step after stop() and the disconnect opens no position
C38_Step ==
    PortDisconnected
        => /\ bot'.open_positions = bot.open_positions
           /\ LedgerPositions(bot') = LedgerPositions(bot)
           /\ env'.orders = env.orders

\* C38: after stop() has been called and the execution port has been disconnected,
\* no order is filled and no position is opened any more: a cycle that was in
\* flight when stop() ran adds no position to the simulated ledger or to the
\* controller's open-position list.
C38_NoFillAfterStop == [][C38_Step]_vars

\* a step in which the port's execute_trade is called
TradeSubmitted == env'.execute_trade_calls = env.execute_trade_calls + 1

\* the quantity the step submits: that of the simulated order it fills
SubmittedQuantity == bot'.executor.positions[Len(bot'.executor.positions)].quantity

\* the quantity submitted is the lot size of the controller's sizing
C33_Step ==
    (TradeSubmitted /\ bot'.executor.kind = "dry" /\ env'.result = "FILLED")
        => /\ SizingFor(bot, bot'.current_signal).is_valid
           /\ SubmittedQuantity = SizingFor(bot, bot'.current_signal).lot_size

\* C33: the quantity submitted to the execution port in a cycle is the quantity of
\* the valid sizing result the controller computed and logged for that signal in
\* the same cycle (same risk percent, entry, stop and target), also after
\* update_config has changed risk_percent.
C33_SubmittedIsSized == [][C33_Step]_vars

\* as long as risk_percent is the one the instance was started with, the quantity
\* submitted is the lot size of the controller's sizing
C33_WithoutUpdate ==
    [][(/\ bot.risk_manager # NoComponent
        /\ bot.config.risk_percent = bot.risk_manager.default_risk_percent) => C33_Step]_vars

\* the trade decision a record of the open-position list was opened for
DecisionOf(trade) ==
    Signal(trade.side, trade.entry_price, trade.stop_loss, trade.take_profit)

\* no two orders have been filled for one decision (every window of WideWindows that
\* has a signal has its own, so two records with one decision come from cycles that
\* fetched the same window)
OncePerDecision ==
    \A i, j \in DOMAIN bot.open_positions :
        i # j => DecisionOf(bot.open_positions[i]) # DecisionOf(bot.open_positions[j])

\* a step calls execute_trade at most once
C34_Step == env'.execute_trade_calls <= env.execute_trade_calls + 1

\* within a cycle a signal leads to at most one execute_trade call
C34_OncePerCycle == [][C34_Step]_vars

\* with max_open_positions = 1 no decision is executed twice
C34_AtCapOne == bot.config.max_open_positions = 1 => OncePerDecision

\* C34: a trade decision is executed at most once: within a cycle a signal leads to
\* at most one execute_trade call, and when consecutive cycles fetch the same candle
\* window and so produce the same signal, at most one order is placed for it, for
\* every max_open_positions >= 1.
C34_ExecutedOnce == []OncePerDecision /\ [][C34_Step]_vars

\* the ids of the records of a list of positions
IdsOf(positions) == {positions[i].id : i \in DOMAIN positions}

\* a simulated port exists and no cycle is in progress
BetweenCycles == bot.executor.kind = "dry" /\ \A t \in Tasks : pc[t] \notin InCycle

\* every position the simulated port has filled is still open
NothingClosed == Len(bot.executor.order_history) = Len(bot.executor.positions)

\* as long as no position has been closed at the port the two lists hold the same ids
C39_BeforeAnyClose ==
    BetweenCycles /\ NothingClosed
        => IdsOf(bot.open_positions) = IdsOf(bot.executor.positions)

\* C39: in dry-run mode the controller's open-position list and the simulated
\* port's position list hold the same set of position ids in every state between
\* cycles, after any sequence of cycles and of close_position calls on the port (so
\* that a position closed at the port no longer counts against max_open_positions)
C39_SamePositions ==
    BetweenCycles => IdsOf(bot.open_positions) = IdsOf(bot.executor.positions)

\* the fields of the configuration that a step changes
ChangedFields == {k \in DOMAIN bot.config : bot'.config[k] # bot.config[k]}

\* a step that changes the configuration changes one field of it, to a value of
\* ConfigUpdates, and apart from that only appends to the log
C40_Frame ==
    ChangedFields # {}
        => /\ \E u \in ConfigUpdates : ChangedFields = {u[1]} /\ bot'.config[u[1]] = u[2]
           /\ [bot' EXCEPT !.config = bot.config, !.logs = bot.logs] = bot
           /\ LastLog(bot').message = "config_updated"
           /\ UNCHANGED <<env, pc, frame, stop_pc>>

\* the risk manager a cycle starts with has the equity, the leverage and the maximum
\* risk of the configuration
C40_CycleReadsConfig ==
    CycleBegins
        => /\ bot.risk_manager.equity = bot.config.equity
           /\ bot.risk_manager.leverage = bot.config.leverage
           /\ bot.risk_manager.max_risk_percent = bot.config.max_risk_percent

\* update_config changes only what it is asked to change
C40_OnlyNamedFields == [][C40_Frame]_vars

\* C40: update_config changes exactly the fields named in the update that exist on
\* the configuration and ignores unknown keys without any change of state; an updated
\* equity, leverage or max_risk_percent (and likewise min_confidence, min_rrr or an
\* EMA period) is the value the Position Sizer (the Signal Engine) uses in every
\* cycle that starts after the update.
C40_UpdateTakesEffect == [][C40_Frame /\ C40_CycleReadsConfig]_vars

TypeOK ==
    /\ bot.state \in BotStates
    /\ bot.running \in BOOLEAN
    /\ Len(bot.logs) <= LOG_KEEP
    /\ pc \in [Tasks -> {"idle", "init", "loop", "fetch", "balance", "market",
                         "sl_leg", "tp_leg", "sleep", "backoff"}]
    /\ stop_pc \in {"idle", "shutdown", "stopped"}

====
